---- MODULE Spec2Model ----
(***************************************************************************)
(* Aureon: procurement opportunity matching.  A model of                   *)
(*   - the set-aside eligibility rules of the relevance scorer, the risk   *)
(*     assessor and the win-probability model (services/*.py) and of the   *)
(*     domain lattice (aureon_domain/types.py);                            *)
(*   - the SAM.gov ingestion job (api/ingestion.py, ingestion/sam_gov.py)  *)
(*     over the opportunities table;                                       *)
(*   - the scoring endpoints (api/scoring.py, api/risk.py) over the        *)
(*     relevance_scores and risk_assessments tables.                       *)
(* Scores are integers in hundredths (1.0 is 100, 0.2 is 20).              *)
(* A Python string that is None or "" is the empty string "" (both are     *)
(* false in the conditions the code tests).                                *)
(***************************************************************************)
EXTENDS Integers, Sequences, FiniteSets, TLC

VARIABLES
    \* --- eligibility rules, applied to one (organization, opportunity) ---
    eOrg,            \* organization.set_aside_types, as a set of strings
    eOpp,            \* opportunity.set_aside_type
    eUei,            \* organization.uei is present
    eClear,          \* opportunity.security_clearance_required
    eOut,            \* the results of the three engines, or NoResult
    \* --- the database ---
    opportunities,   \* aureon.opportunities: set of rows
    organizations,   \* aureon.organizations: id -> profile
    relevance_scores,\* aureon.relevance_scores: set of rows
    risk_assessments,\* aureon.risk_assessments: set of rows
    log,             \* ingestion.ingestion_logs: job id -> row
    nextId,          \* source of fresh primary keys
    \* --- processes ---
    job,             \* ingestion jobs: trigger request and background task
    req,             \* scoring requests in flight
    commitOrder,     \* the order in which scoring requests reached their commit
    \* --- one call of a scoring or compliance function ---
    call             \* the function, its arguments and, once done, its result

eligVars  == <<eOrg, eOpp, eUei, eClear, eOut>>
dbVars    == <<opportunities, organizations, relevance_scores, risk_assessments,
               log, nextId>>
procVars  == <<job, req, commitOrder>>
vars      == <<eOrg, eOpp, eUei, eClear, eOut, opportunities, organizations,
               relevance_scores, risk_assessments, log, nextId, job, req,
               commitOrder, call>>

(***************************************************************************)
(* Bounds.                                                                 *)
(***************************************************************************)
\* the largest number of certifications an organization holds
MaxCerts == 2

(***************************************************************************)
(* Strings.                                                                *)
(***************************************************************************)
\* SetAsideType: the values an organization certification takes
SetAsideType == {"SB", "SDB", "8A", "WOSB", "EDWOSB", "VOSB", "SDVOSB", "HUBZone"}

\* the set-aside values an opportunity carries: the enum, "8(a)" as the tests
\* write it, and "" for none
OppSetAsides == SetAsideType \cup {"8(a)", ""}

\* str.upper() on the strings of the model
Upper(s) ==
    CASE s = "HUBZone" -> "HUBZONE"
      [] s = "8(a)"    -> "8(A)"
      [] s = "Secret"  -> "SECRET"
      [] OTHER         -> s

\* str.lower() on the strings of the model
Lower(s) ==
    CASE s = "Secret"     -> "secret"
      [] s = "Public Trust" -> "public trust"
      [] OTHER            -> s

\* dict.get(key, default)
Get(table, key, default) == IF key \in DOMAIN table THEN table[key] ELSE default

(***************************************************************************)
(* aureon_domain/types.py: the eligibility lattice.                        *)
(***************************************************************************)
SET_ASIDE_ELIGIBILITY ==
    ("SB"      :> {"SB", "SDB", "8A", "WOSB", "EDWOSB", "VOSB", "SDVOSB", "HUBZone"}) @@
    ("SDB"     :> {"SDB", "8A"}) @@
    ("8A"      :> {"8A"}) @@
    ("WOSB"    :> {"WOSB", "EDWOSB"}) @@
    ("EDWOSB"  :> {"EDWOSB"}) @@
    ("VOSB"    :> {"VOSB", "SDVOSB"}) @@
    ("SDVOSB"  :> {"SDVOSB"}) @@
    ("HUBZone" :> {"HUBZone"}) @@
    ("ISBEE"   :> {"ISBEE"}) @@
    ("NONE"    :> {})

is_eligible_for_set_aside(org_set_asides, opp_set_aside) ==
    IF opp_set_aside = "" \/ opp_set_aside = "NONE"
    THEN TRUE
    ELSE \E t \in org_set_asides :
            t \in Get(SET_ASIDE_ELIGIBILITY, opp_set_aside, {})

(***************************************************************************)
(* services/relevance_scorer.py: the set-aside rule of the size sub-score. *)
(***************************************************************************)
Relevance_SET_ASIDE_ELIGIBLE ==
    ("SB"      :> {"SB", "SDB", "8A", "WOSB", "EDWOSB", "HUBZone", "VOSB", "SDVOSB"}) @@
    ("8A"      :> {"8A"}) @@
    ("WOSB"    :> {"WOSB", "EDWOSB"}) @@
    ("EDWOSB"  :> {"EDWOSB"}) @@
    ("SDVOSB"  :> {"SDVOSB", "VOSB"}) @@
    ("VOSB"    :> {"VOSB", "SDVOSB"}) @@
    ("HUBZone" :> {"HUBZone"})

\* lines 300-316: the score after the set-aside check, before the capacity check
size_setaside_score(org_set_aside_types, opp_set_aside_type) ==
    IF opp_set_aside_type # "" /\ org_set_aside_types # {}
    THEN LET opp_setaside   == Upper(opp_set_aside_type)
             org_setasides  == {Upper(s) : s \in org_set_aside_types}
             eligible_types == Get(Relevance_SET_ASIDE_ELIGIBLE, opp_setaside, {})
         IN  IF eligible_types # {}
             THEN IF \E t \in eligible_types : t \in org_setasides
                  THEN 100
                  ELSE 20
             ELSE 100
    ELSE 100

\* lines 318-334: the capacity band of estimated_value_max / annual_revenue;
\* a value that is None or 0 is false in the condition
capacity_score(estimated_value_max, annual_revenue) ==
    IF estimated_value_max # 0 /\ annual_revenue # 0
    THEN CASE 10 * estimated_value_max < annual_revenue     -> 95
           [] 2 * estimated_value_max < annual_revenue      -> 100
           [] estimated_value_max < annual_revenue          -> 80
           [] estimated_value_max < 2 * annual_revenue      -> 50
           [] OTHER                                         -> 20
    ELSE 100

Min(a, b) == IF a <= b THEN a ELSE b

_calculate_size_score(org_set_aside_types, opp_set_aside_type, estimated_value_max, annual_revenue) ==
    Min(size_setaside_score(org_set_aside_types, opp_set_aside_type),
        capacity_score(estimated_value_max, annual_revenue))

(***************************************************************************)
(* services/risk_assessor.py: eligibility risk.                            *)
(***************************************************************************)
setaside_map ==
    ("SDVOSB"  :> {"SDVOSB"}) @@
    ("VOSB"    :> {"VOSB", "SDVOSB"}) @@
    ("8(A)"    :> {"8A", "8(A)"}) @@
    ("8A"      :> {"8A", "8(A)"}) @@
    ("WOSB"    :> {"WOSB", "EDWOSB"}) @@
    ("EDWOSB"  :> {"EDWOSB"}) @@
    ("HUBZONE" :> {"HUBZONE"}) @@
    ("SDB"     :> {"SDB", "8A", "8(A)"}) @@
    ("SB"      :> {"SB", "SDB", "8A", "WOSB", "SDVOSB", "HUBZONE"})

\* lines 163-183: the organization is not eligible and +0.8 is added
risk_setaside_ineligible(org_set_aside_types, opp_set_aside_type) ==
    IF opp_set_aside_type # ""
    THEN LET opp_setaside   == Upper(opp_set_aside_type)
             org_setasides  == {Upper(s) : s \in org_set_aside_types}
             eligible_types == Get(setaside_map, opp_setaside, {opp_setaside})
         IN  ~ (\E t \in eligible_types : t \in org_setasides)
    ELSE FALSE

\* "secret" in clearance or "top secret" in clearance or "ts/sci" in clearance
ClearanceMatches(clearance) == clearance \in {"secret"}

_assess_eligibility_risk(org_set_aside_types, has_uei, opp_set_aside_type, security_clearance_required) ==
    LET a == IF risk_setaside_ineligible(org_set_aside_types, opp_set_aside_type)
             THEN 80 ELSE 0
        b == IF security_clearance_required # ""
                /\ ClearanceMatches(Lower(security_clearance_required))
             THEN 40 ELSE 0
        c == IF ~ has_uei THEN 30 ELSE 0
    IN  Min(100, a + b + c)

(***************************************************************************)
(* services/win_probability.py: the set-aside factor.                      *)
(***************************************************************************)
Win_SET_ASIDE_ELIGIBLE ==
    ("SB"      :> {"SB", "SDB", "8A", "WOSB", "EDWOSB", "HUBZone", "VOSB", "SDVOSB"}) @@
    ("8A"      :> {"8A", "8(A)"}) @@
    ("8(A)"    :> {"8A", "8(A)"}) @@
    ("WOSB"    :> {"WOSB", "EDWOSB"}) @@
    ("EDWOSB"  :> {"EDWOSB"}) @@
    ("SDVOSB"  :> {"SDVOSB", "VOSB"}) @@
    ("VOSB"    :> {"VOSB", "SDVOSB"}) @@
    ("HUBZone" :> {"HUBZone"}) @@
    ("HUBZONE" :> {"HUBZone", "HUBZONE"})

\* any(term in opp_setaside for term in ["SB", "SMALL"]): substring tests on
\* the upper-cased strings of the model
ContainsSBOrSmall(s) == s \in {"SB", "WOSB", "EDWOSB", "VOSB", "SDVOSB"}

_score_setaside_eligibility(org_set_aside_types, opp_set_aside_type) ==
    IF opp_set_aside_type = ""
    THEN 60
    ELSE LET opp_setaside  == Upper(opp_set_aside_type)
             org_setasides == {Upper(s) : s \in org_set_aside_types}
             eligible_types == Get(Win_SET_ASIDE_ELIGIBLE, opp_setaside, {opp_setaside})
         IN  IF org_setasides = {}
             THEN IF ContainsSBOrSmall(opp_setaside) THEN 30 ELSE 50
             ELSE IF \E t \in eligible_types : t \in org_setasides
                  THEN 100
                  ELSE 10

(***************************************************************************)
(* The eligibility rules applied to every organization and opportunity of  *)
(* the bounded input sets.                                                 *)
(***************************************************************************)
NoResult == [done |-> FALSE]

\* no function is being called
NoCall == [fn |-> "none", done |-> FALSE]

CertSets == {S \in SUBSET SetAsideType : Cardinality(S) <= MaxCerts}

Clearances == {"", "Secret", "Public Trust"}

EligIdle ==
    /\ eOrg = {}
    /\ eOpp = ""
    /\ eUei = TRUE
    /\ eClear = ""
    /\ eOut = NoResult

EligInit ==
    /\ eOrg \in CertSets
    /\ eOpp \in OppSetAsides
    /\ eUei \in BOOLEAN
    /\ eClear \in Clearances
    /\ eOut = NoResult

\* one call of each engine on the same organization and opportunity
Evaluate ==
    /\ eOut = NoResult
    /\ eOut' = [done      |-> TRUE,
                size      |-> size_setaside_score(eOrg, eOpp),
                risk      |-> _assess_eligibility_risk(eOrg, eUei, eOpp, eClear),
                riskInel  |-> risk_setaside_ineligible(eOrg, eOpp),
                win       |-> _score_setaside_eligibility(eOrg, eOpp)]
    /\ UNCHANGED <<eOrg, eOpp, eUei, eClear>>

(***************************************************************************)
(* The database session (database/connection.py): autoflush is off, so a   *)
(* SELECT reads the committed rows only and never the session's pending    *)
(* inserts; commit() flushes the pending inserts and updates in one        *)
(* transaction, which the unique constraints of models.py accept or reject *)
(* as a whole.                                                             *)
(***************************************************************************)
\* Opportunity.__table_args__: UniqueConstraint("source_id", "source_system");
\* every row of the model has source_system = "sam.gov"
uq_opportunity_source(rows) ==
    \A r1 \in rows : \A r2 \in rows : r1.source_id = r2.source_id => r1.id = r2.id

\* the rows with the pending updates applied (UPDATE ... WHERE id = ...)
ApplyDirty(rows, dirty) ==
    {IF \E d \in dirty : d.id = r.id
     THEN [r EXCEPT !.set_aside_type = (CHOOSE d \in dirty : d.id = r.id).set_aside_type,
                    !.fetched_by = (CHOOSE d \in dirty : d.id = r.id).fetched_by]
     ELSE r : r \in rows}

\* the pending inserts as rows with fresh primary keys
NewOppRows(new, first) ==
    {[id |-> first + i - 1, source_id |-> new[i].source_id,
      set_aside_type |-> new[i].set_aside_type,
      fetched_by |-> new[i].fetched_by] : i \in 1..Len(new)}

(***************************************************************************)
(* Ingestion: api/ingestion.py and ingestion/sam_gov.py.                   *)
(***************************************************************************)
\* the number of ingestion jobs triggered
MaxJobs == 2
\* the largest number of records one fetch returns
MaxBatch == 2

JobIds == 1..MaxJobs

Sources == {"sam_gov", "grants_gov"}

NoticeIds == {"N1", "N2"}

\* a raw record of the feed: noticeId, typeOfSetAsideDescription, and whether
\* _parse_opportunity raises on it (placeOfPerformance.country is null)
Records ==
    {[noticeId |-> "N1", typeOfSetAside |-> "SB", malformed |-> FALSE],
     [noticeId |-> "N2", typeOfSetAside |-> "8A", malformed |-> FALSE],
     [noticeId |-> "N2", typeOfSetAside |-> "8A", malformed |-> TRUE]}

NoLog == [status |-> "none", error_message |-> "", completed_at |-> FALSE,
          records_fetched |-> 0, records_inserted |-> 0,
          records_updated |-> 0, records_failed |-> 0]

ZeroStats == [fetched |-> 0, inserted |-> 0, updated |-> 0, failed |-> 0]

\* new and dirty are the session's pending inserts and updates; written counts
\* the rows the job's commit has inserted or updated
IdleJob == [pc |-> "idle", idx |-> 0, stats |-> ZeroStats,
            new |-> <<>>, dirty |-> {}, client |-> "none", error |-> "",
            written |-> 0]

IngestInit ==
    /\ opportunities = {}
    /\ nextId = 1
    /\ log = [j \in JobIds |-> NoLog]
    /\ job = [j \in JobIds |-> IdleJob]

\* trigger_ingestion, lines 32-47: the log row is committed as queued and the
\* background task is added, or the source is not supported
trigger_ingestion(j, source) ==
    /\ job[j].pc = "idle"
    /\ IF j = 1 THEN TRUE ELSE job[j - 1].pc # "idle"
    /\ log' = [log EXCEPT ![j] = [NoLog EXCEPT !.status = "queued"]]
    /\ job' = [job EXCEPT ![j].pc =
                  IF source = "sam_gov" THEN "task" ELSE "unsupported"]
    /\ UNCHANGED <<opportunities, nextId>>

\* trigger_ingestion, lines 48-53
trigger_unsupported(j) ==
    /\ job[j].pc = "unsupported"
    /\ log' = [log EXCEPT ![j] = [@ EXCEPT !.status = "failed",
                                           !.error_message = "not yet implemented",
                                           !.completed_at = TRUE]]
    /\ job' = [job EXCEPT ![j].pc = "done"]
    /\ UNCHANGED <<opportunities, nextId>>

\* run_sam_gov_ingestion, lines 141-164: the log is committed as running, the
\* ingester is built (SAMGovIngester.__init__ opens the HTTP client) and
\* ingest() waits for the fetch
run_sam_gov_ingestion(j) ==
    /\ job[j].pc = "task"
    /\ log[j].status # "none"
    /\ log' = [log EXCEPT ![j].status = "running"]
    /\ job' = [job EXCEPT ![j].pc = "fetching", ![j].client = "open"]
    /\ UNCHANGED <<opportunities, nextId>>

\* ingest, lines 137-141: the fetch returns a list of n records; the model
\* learns each record when the loop reads it
fetch_returns(j, n) ==
    /\ job[j].pc = "fetching"
    /\ job' = [job EXCEPT ![j].stats = [ZeroStats EXCEPT !.fetched = n],
                          ![j].idx = 1,
                          ![j].pc = IF n = 0 THEN "returned" ELSE "storing"]
    /\ UNCHANGED <<opportunities, nextId, log>>

\* ingest, lines 161-163, with _fetch_opportunities lines 188-197: the fetch raises
fetch_raises(j) ==
    /\ job[j].pc = "fetching"
    /\ job' = [job EXCEPT ![j].pc = "raised", ![j].error = "fetch"]
    /\ UNCHANGED <<opportunities, nextId, log>>

\* _store_opportunity on one record: "inserted", "updated" or "failed" (raises)
StoreResult(existing, rec) ==
    CASE Cardinality(existing) > 1 -> "failed"
      [] rec.malformed             -> "failed"
      [] existing # {}             -> "updated"
      [] OTHER                     -> "inserted"

\* ingest, lines 142-155, one turn of the loop, on the record rec
store_opportunity(j, rec) ==
    /\ job[j].pc = "storing"
    /\ LET existing == {r \in opportunities : r.source_id = rec.noticeId}
           result   == StoreResult(existing, rec)
           parsed   == [source_id |-> rec.noticeId,
                        set_aside_type |-> rec.typeOfSetAside,
                        fetched_by |-> j]
           row      == CHOOSE r \in existing : TRUE
           st       == job[j].stats
       IN  job' = [job EXCEPT
                ![j].idx = @ + 1,
                ![j].pc = IF job[j].idx = st.fetched THEN "commit" ELSE "storing",
                ![j].new = IF result = "inserted" THEN Append(@, parsed) ELSE @,
                ![j].dirty = IF result = "updated"
                             THEN {d \in @ : d.id # row.id}
                                  \cup {[id |-> row.id,
                                         set_aside_type |-> parsed.set_aside_type,
                                         fetched_by |-> j]}
                             ELSE @,
                ![j].stats = [st EXCEPT
                    !.inserted = IF result = "inserted" THEN @ + 1 ELSE @,
                    !.updated  = IF result = "updated" THEN @ + 1 ELSE @,
                    !.failed   = IF result = "failed" THEN @ + 1 ELSE @]]
    /\ UNCHANGED <<opportunities, nextId, log>>

\* ingest, line 157: db_session.commit() flushes the session
ingest_commit(j) ==
    /\ job[j].pc = "commit"
    /\ LET after == ApplyDirty(opportunities, job[j].dirty)
                    \cup NewOppRows(job[j].new, nextId)
       IN  IF uq_opportunity_source(after)
           THEN /\ opportunities' = after
                /\ nextId' = nextId + Len(job[j].new)
                /\ job' = [job EXCEPT ![j].pc = "returned",
                                      ![j].written = Len(job[j].new)
                                                     + Cardinality(job[j].dirty),
                                      ![j].new = <<>>, ![j].dirty = {}]
           ELSE /\ job' = [job EXCEPT ![j].pc = "raised", ![j].error = "integrity",
                                      ![j].new = <<>>, ![j].dirty = {}]
                /\ UNCHANGED <<opportunities, nextId>>
    /\ UNCHANGED log

\* run_sam_gov_ingestion, lines 166-172
LogCompleted(l, stats) ==
    [l EXCEPT !.status = "completed", !.completed_at = TRUE,
              !.records_fetched = stats.fetched,
              !.records_inserted = stats.inserted,
              !.records_updated = stats.updated,
              !.records_failed = stats.failed]

\* a variant of lines 174-177 that does not record the error
LogFailed_no_message(l, e) ==
    [l EXCEPT !.status = "failed", !.completed_at = TRUE]

\* a variant of lines 174-177 that leaves the log as it is
LogFailed_not_recorded(l, e) == l

\* run_sam_gov_ingestion, lines 174-177
LogFailed(l, e) ==
    [l EXCEPT !.status = "failed", !.completed_at = TRUE, !.error_message = e]

\* run_sam_gov_ingestion, lines 166-179, after ingest() returned
run_completed(j) ==
    /\ job[j].pc = "returned"
    /\ log' = [log EXCEPT ![j] = LogCompleted(@, job[j].stats)]
    /\ job' = [job EXCEPT ![j].pc = "done"]
    /\ UNCHANGED <<opportunities, nextId>>

\* run_sam_gov_ingestion, lines 174-179, after ingest() raised
run_failed(j) ==
    /\ job[j].pc = "raised"
    /\ log' = [log EXCEPT ![j] = LogFailed(@, job[j].error)]
    /\ job' = [job EXCEPT ![j].pc = "done"]
    /\ UNCHANGED <<opportunities, nextId>>

(***************************************************************************)
(* Scoring: api/scoring.py and api/risk.py.  The stored row keeps the size *)
(* sub-score (relevance) or the eligibility risk score (risk assessment).  *)
(***************************************************************************)
\* the number of scoring requests
MaxReqs == 2
\* the largest number of opportunity ids in a batch request
MaxBatchIds == 2

ReqIds == 1..MaxReqs

Kinds == {"calculate", "batch", "assess"}

\* the organization ids a request names: one that exists and one that does not
ReqOrgIds == {"o1", "oX"}

\* the opportunity ids a request names: 1 and 2 exist, 0 does not
ReqOppIds == {0, 1, 2}

\* the id lists of a request: one id for calculate and assess; for batch the
\* ascending lists of at most MaxBatchIds ids, and a list that repeats an id
IsAscending(l) == \A i \in 1..(Len(l) - 1) : l[i] < l[i + 1]

OppIdLists(kind, org) ==
    IF org = "oX"
    THEN {<<1>>}
    ELSE IF kind = "batch"
         THEN {l \in UNION {[1..n -> ReqOppIds] : n \in 1..MaxBatchIds} : IsAscending(l)}
              \cup {<<1, 1>>}
         ELSE [1..1 -> ReqOppIds]

\* the certifications PATCH /organizations/{id} sets
PatchedCerts == {{"SB"}, {"8A"}}

\* certs and set_aside are what the handler read from the organization and the
\* opportunity; new and dirty are the session's pending inserts and updates;
\* resp is the HTTP status of the response (0: none yet); pre are the requested
\* opportunities that had a row when the request arrived, and wrote those whose
\* row the request's commit inserted or updated
IdleReq == [pc |-> "idle", kind |-> "", org |-> "", opps |-> <<>>,
            certs |-> {}, set_aside |-> "", new |-> {}, dirty |-> {},
            resp |-> 0, pre |-> {}, wrote |-> {}]

ScoringIdle ==
    /\ organizations = [o \in {"o1"} |-> [set_aside_types |-> {"SB"}, uei |-> TRUE]]
    /\ relevance_scores = {}
    /\ risk_assessments = {}
    /\ req = [r \in ReqIds |-> IdleReq]
    /\ commitOrder = <<>>

\* the opportunities an earlier ingestion has stored
StoredOpportunities ==
    {[id |-> 1, source_id |-> "N1", set_aside_type |-> "SB", fetched_by |-> 1],
     [id |-> 2, source_id |-> "N2", set_aside_type |-> "8A", fetched_by |-> 1]}

\* a variant of the tables without the unique constraint
uq_org_opp_absent(rows) == TRUE

\* RelevanceScore / RiskAssessment.__table_args__:
\* UniqueConstraint("organization_id", "opportunity_id")
uq_org_opp(rows) ==
    \A r1 \in rows : \A r2 \in rows :
        (r1.organization_id = r2.organization_id
         /\ r1.opportunity_id = r2.opportunity_id) => r1.id = r2.id

Table(kind) == IF kind = "assess" THEN risk_assessments ELSE relevance_scores

RowsFor(rows, org, opp) ==
    {x \in rows : x.organization_id = org /\ x.opportunity_id = opp}

\* the value a request stores for one opportunity: RelevanceScorer.calculate_score
\* (size sub-score) or RiskAssessor.assess_risk (eligibility risk score)
ScoreValue(kind, certs, uei, set_aside_type) ==
    IF kind = "assess"
    THEN _assess_eligibility_risk(certs, uei, set_aside_type, "")
    ELSE _calculate_size_score(certs, set_aside_type, 0, 0)

\* update_organization (api/organizations.py): PATCH of set_aside_types
update_organization(o, certs) ==
    /\ o \in DOMAIN organizations
    /\ organizations[o].set_aside_types # certs
    /\ organizations' = [organizations EXCEPT ![o].set_aside_types = certs]
    /\ UNCHANGED <<relevance_scores, risk_assessments, req, commitOrder>>

\* the request arrives and the handler selects the organization:
\* scoring.py lines 36-42 and 106-112, risk.py lines 33-39
get_organization(r, kind, org, opps) ==
    /\ req[r].pc = "idle"
    /\ IF r = 1 THEN TRUE ELSE req[r - 1].pc # "idle"
    /\ LET found == org \in DOMAIN organizations
           pre   == {opps[i] : i \in {k \in 1..Len(opps) :
                                        RowsFor(Table(kind), org, opps[k]) # {}}}
       IN  req' = [req EXCEPT ![r] =
                [IdleReq EXCEPT !.kind = kind, !.org = org, !.opps = opps,
                                !.pre = pre,
                                !.certs = IF found
                                          THEN organizations[org].set_aside_types
                                          ELSE {},
                                !.pc = IF found THEN "get_opp" ELSE "done",
                                !.resp = IF found THEN 0 ELSE 404]]
    /\ UNCHANGED <<organizations, relevance_scores, risk_assessments, commitOrder>>

\* a variant of the lookup that answers an unknown id with some opportunity
OppLookup_any(id) ==
    IF \E o \in opportunities : o.id = id
    THEN {o \in opportunities : o.id = id}
    ELSE {[o EXCEPT !.id = id] : o \in opportunities}

\* select(Opportunity).where(Opportunity.id == ...): scoring.py lines 45-50,
\* risk.py lines 42-47
OppLookup(id) == {o \in opportunities : o.id = id}

\* scoring.py lines 45-53, risk.py lines 42-50: the opportunity is selected and
\* the score computed
get_opportunity(r) ==
    /\ req[r].pc = "get_opp"
    /\ req[r].kind \in {"calculate", "assess"}
    /\ LET found == OppLookup(req[r].opps[1])
       IN  req' = [req EXCEPT
                ![r].pc = IF found = {} THEN "done" ELSE "select_existing",
                ![r].set_aside = IF found = {} THEN ""
                                 ELSE (CHOOSE o \in found : TRUE).set_aside_type,
                ![r].resp = IF found = {} THEN 404 ELSE 0]
    /\ UNCHANGED <<organizations, relevance_scores, risk_assessments, commitOrder>>

\* scoring.py lines 55-88, risk.py lines 52-97: the existing row is selected and
\* either changed or a new row added to the session
select_existing(r) ==
    /\ req[r].pc = "select_existing"
    /\ LET q        == req[r]
           existing == RowsFor(Table(q.kind), q.org, q.opps[1])
           value    == ScoreValue(q.kind, q.certs, TRUE, q.set_aside)
           row      == CHOOSE x \in existing : TRUE
       IN  req' = [req EXCEPT
                ![r].pc = "commit",
                ![r].dirty = IF existing # {}
                             THEN {[id |-> row.id, score |-> value]} ELSE {},
                ![r].new = IF existing = {}
                           THEN {[organization_id |-> q.org,
                                  opportunity_id |-> q.opps[1],
                                  score |-> value]}
                           ELSE {}]
    /\ UNCHANGED <<organizations, relevance_scores, risk_assessments, commitOrder>>

\* select(Opportunity).where(Opportunity.id.in_(ids)): scoring.py lines 115-118
OppsLookup(ids) == {o \in opportunities : \E i \in 1..Len(ids) : o.id = ids[i]}

\* scoring.py lines 115-145: the opportunities are selected, and each is scored
\* and merged; merge() of an object without a primary key adds a new row to
\* the session
get_opportunities(r) ==
    /\ req[r].pc = "get_opp"
    /\ req[r].kind = "batch"
    /\ LET q     == req[r]
           found == OppsLookup(q.opps)
       IN  IF Cardinality(found) # Len(q.opps)
           THEN req' = [req EXCEPT ![r].pc = "done", ![r].resp = 400]
           ELSE req' = [req EXCEPT
                    ![r].pc = "commit",
                    ![r].new = {[organization_id |-> q.org,
                                 opportunity_id |-> o.id,
                                 score |-> ScoreValue(q.kind, q.certs, TRUE, o.set_aside_type)]
                                : o \in found}]
    /\ UNCHANGED <<organizations, relevance_scores, risk_assessments, commitOrder>>

\* the rows of a table with a session's pending updates applied
ApplyScoreUpdates(rows, dirty, r) ==
    {IF \E d \in dirty : d.id = x.id
     THEN [x EXCEPT !.score = (CHOOSE d \in dirty : d.id = x.id).score, !.by = r]
     ELSE x : x \in rows}

\* an injection of the pending inserts of one session into fresh primary keys
Numbering(new) ==
    CHOOSE f \in [new -> 0..(Cardinality(new) - 1)] :
        \A a \in new : \A b \in new : f[a] = f[b] => a = b

\* the session's pending inserts as rows
NewScoreRows(new, first, r) ==
    {[id |-> first + Numbering(new)[n], organization_id |-> n.organization_id,
      opportunity_id |-> n.opportunity_id, score |-> n.score, by |-> r]
      : n \in new}

\* a variant of the flush that keeps every row the constraint accepts on its own
Flush_row_by_row(rows, dirty, new, first, r) ==
    LET upd == ApplyScoreUpdates(rows, dirty, r)
    IN  upd \cup {n \in NewScoreRows(new, first, r) :
                      RowsFor(upd, n.organization_id, n.opportunity_id) = {}}

\* db.commit(): the table after the flush when the unique constraint accepts
\* it; the table unchanged (the transaction rolled back) when it does not
Flush(rows, dirty, new, first, r) ==
    LET after == ApplyScoreUpdates(rows, dirty, r) \cup NewScoreRows(new, first, r)
    IN  IF uq_org_opp(after) THEN after ELSE rows

FlushOk(rows, dirty, new, first, r) ==
    uq_org_opp(ApplyScoreUpdates(rows, dirty, r) \cup NewScoreRows(new, first, r))

\* scoring.py lines 90-93 and 147-152, risk.py lines 99-100: commit, then the
\* response; an IntegrityError is answered with status 500 and get_db rolls
\* the session back
commit(r) ==
    /\ req[r].pc = "commit"
    /\ LET q  == req[r]
           ok == FlushOk(Table(q.kind), q.dirty, q.new, nextId, r)
           t  == Flush(Table(q.kind), q.dirty, q.new, nextId, r)
       IN  /\ IF q.kind = "assess"
              THEN /\ risk_assessments' = t
                   /\ UNCHANGED relevance_scores
              ELSE /\ relevance_scores' = t
                   /\ UNCHANGED risk_assessments
           /\ nextId' = IF ok THEN nextId + Cardinality(q.new) ELSE nextId
           /\ req' = [req EXCEPT ![r].pc = "done",
                                 ![r].resp = IF ok THEN 200 ELSE 500,
                                 ![r].wrote = {x.opportunity_id :
                                                 x \in t \ Table(q.kind)},
                                 ![r].new = {}, ![r].dirty = {}]
    /\ commitOrder' = Append(commitOrder, r)
    /\ UNCHANGED organizations

(***************************************************************************)
(* Specifications.                                                         *)
(***************************************************************************)
IngestIdle ==
    /\ opportunities = StoredOpportunities
    /\ nextId = 3
    /\ log = [j \in JobIds |-> NoLog]
    /\ job = [j \in JobIds |-> IdleJob]

\* the eligibility rules on every input
InitElig == EligInit /\ IngestIdle /\ ScoringIdle /\ call = NoCall

NextElig ==
    Evaluate /\ UNCHANGED <<dbVars, procVars, call>>

SpecElig == InitElig /\ [][NextElig]_vars

\* ingestion jobs over an empty opportunities table
InitIngest == EligIdle /\ IngestInit /\ ScoringIdle /\ call = NoCall

IngestFrame ==
    UNCHANGED <<eligVars, organizations, relevance_scores, risk_assessments,
                req, commitOrder, call>>

NextIngest ==
    \E j \in JobIds :
        \/ \E source \in Sources : trigger_ingestion(j, source) /\ IngestFrame
        \/ trigger_unsupported(j) /\ IngestFrame
        \/ run_sam_gov_ingestion(j) /\ IngestFrame
        \/ \E n \in 0..MaxBatch : fetch_returns(j, n) /\ IngestFrame
        \/ fetch_raises(j) /\ IngestFrame
        \/ \E rec \in Records : store_opportunity(j, rec) /\ IngestFrame
        \/ ingest_commit(j) /\ IngestFrame
        \/ run_completed(j) /\ IngestFrame
        \/ run_failed(j) /\ IngestFrame

SpecIngest == InitIngest /\ [][NextIngest]_vars

\* scoring requests over two stored opportunities and one organization
InitScoring == EligIdle /\ IngestIdle /\ ScoringIdle /\ call = NoCall

ScoringFrame == UNCHANGED <<eligVars, opportunities, log, job, call>>

NextScoring ==
    \/ \E o \in {"o1"} : \E certs \in PatchedCerts :
          update_organization(o, certs) /\ UNCHANGED nextId /\ ScoringFrame
    \/ \E r \in ReqIds :
          \E kind \in Kinds : \E org \in ReqOrgIds : \E opps \in OppIdLists(kind, org) :
             get_organization(r, kind, org, opps) /\ UNCHANGED nextId /\ ScoringFrame
    \/ \E r \in ReqIds : get_opportunity(r) /\ UNCHANGED nextId /\ ScoringFrame
    \/ \E r \in ReqIds : get_opportunities(r) /\ UNCHANGED nextId /\ ScoringFrame
    \/ \E r \in ReqIds : select_existing(r) /\ UNCHANGED nextId /\ ScoringFrame
    \/ \E r \in ReqIds : commit(r) /\ ScoringFrame

SpecScoring == InitScoring /\ [][NextScoring]_vars

Spec == SpecScoring

(***************************************************************************)
(* Properties of ingestion, checked under SpecIngest.                      *)
(***************************************************************************)
\* C1: after any sequence of ingest runs the store holds at most one
\* opportunity per (source_system, source_id), and a record whose key is
\* already stored, or already met earlier in the same batch, is an update of
\* that row and never a second insert: no session holds two pending inserts
\* of one key, and no run's commit is rejected by the unique constraint
C1_IngestionIdempotent ==
    /\ uq_opportunity_source(opportunities)
    /\ \A j \in JobIds :
          /\ \A i1 \in 1..Len(job[j].new) : \A i2 \in 1..Len(job[j].new) :
                job[j].new[i1].source_id = job[j].new[i2].source_id => i1 = i2
          /\ job[j].error # "integrity"

\* C5: a job whose fetch failed wrote no opportunity row, holds nothing to
\* write, and ends with its log failed and the error recorded
C5_FetchFailure ==
    \A j \in JobIds :
        job[j].error = "fetch" =>
            /\ job[j].written = 0
            /\ job[j].new = <<>> /\ job[j].dirty = {}
            /\ job[j].stats = ZeroStats
            /\ \A row \in opportunities : row.fetched_by # j
            /\ job[j].pc = "done" =>
                  /\ log[j].status = "failed"
                  /\ log[j].error_message = "fetch"
                  /\ log[j].completed_at

\* a job ended after a failed fetch while another job's rows are in the store
C5_Witness ==
    \E j \in JobIds :
        /\ job[j].error = "fetch" /\ job[j].pc = "done"
        /\ log[j].status = "failed"
        /\ opportunities # {}

\* C6: a job in whose batch the store of a record failed (the record was
\* counted as failed, or its insert was rejected) ends completed, with the
\* failures counted in the log and the other records committed
C6_RecordFailureIsolated ==
    \A j \in JobIds :
        (/\ job[j].pc = "done"
         /\ job[j].stats.failed > 0 \/ job[j].error = "integrity") =>
            /\ log[j].status = "completed"
            /\ log[j].records_failed = job[j].stats.failed
            /\ job[j].error = ""
            /\ (job[j].stats.inserted + job[j].stats.updated > 0
                   => job[j].written > 0)

\* C9: a job whose log is completed or failed has released the HTTP client
\* its ingester opened
C9_ClientReleased ==
    \A j \in JobIds :
        (log[j].status \in {"completed", "failed"} /\ job[j].client # "none")
            => job[j].client = "closed"

(***************************************************************************)
(* Properties of the eligibility rules, checked under SpecElig.            *)
(***************************************************************************)
\* C10: for an SB set-aside an organization holding any of the certifications
\* is eligible in the three engines (size score not clamped, no ineligibility
\* risk, win factor 1.0); an organization holding only SB is ineligible for
\* 8A, WOSB, EDWOSB, VOSB, SDVOSB, HUBZone and SDB in the three engines
C10_SmallBusinessSetAside ==
    eOut.done =>
        /\ (eOpp = "SB" /\ eOrg # {}) =>
              /\ eOut.size = 100
              /\ ~eOut.riskInel
              /\ eOut.win = 100
        /\ (eOrg = {"SB"}
            /\ eOpp \in {"8A", "WOSB", "EDWOSB", "VOSB", "SDVOSB", "HUBZone", "SDB"}) =>
              /\ eOut.size = 20
              /\ eOut.riskInel
              /\ eOut.win = 10

(***************************************************************************)
(* Properties of scoring, checked under SpecScoring.                       *)
(***************************************************************************)
\* two finished single scorings of one kind for the same pair, both past the
\* lookups of the organization and the opportunity
SamePair(r1, r2) ==
    /\ r1 # r2
    /\ req[r1].pc = "done" /\ req[r2].pc = "done"
    /\ req[r1].kind \in {"calculate", "assess"}
    /\ req[r1].kind = req[r2].kind
    /\ req[r1].org = req[r2].org
    /\ req[r1].opps = req[r2].opps
    /\ req[r1].resp \in {200, 500} /\ req[r2].resp \in {200, 500}

\* the position of request r in the order of commits
CommitPos(r) == CHOOSE i \in 1..Len(commitOrder) : commitOrder[i] = r

\* C2: once two scorings of the same (organization, opportunity) have both
\* finished, exactly one row exists for the pair
C2_ExactlyOneRow ==
    \A r1 \in ReqIds : \A r2 \in ReqIds :
        SamePair(r1, r2) =>
            Cardinality(RowsFor(Table(req[r1].kind), req[r1].org,
                                req[r1].opps[1])) = 1

\* two scorings raced on a pair without a row: both added a row, one commit
\* was rejected
C2_Witness ==
    \E r1 \in ReqIds : \E r2 \in ReqIds :
        /\ SamePair(r1, r2)
        /\ req[r1].pre = {} /\ req[r2].pre = {}
        /\ req[r1].resp = 200 /\ req[r2].resp = 500

\* C3: two racing scorings of the same pair both complete without error and
\* the row holds what the later commit wrote
C3_LastCommitWins ==
    \A r1 \in ReqIds : \A r2 \in ReqIds :
        (SamePair(r1, r2) /\ CommitPos(r1) < CommitPos(r2)) =>
            /\ req[r1].resp = 200 /\ req[r2].resp = 200
            /\ \A x \in RowsFor(Table(req[r1].kind), req[r1].org, req[r1].opps[1]) :
                  x.by = r2

\* C4: re-scoring a pair that already has a row, through calculate, batch or
\* assess, succeeds and leaves one row for the pair
C4_RescoreOverwrites ==
    \A r \in ReqIds :
        (req[r].pc = "done" /\ req[r].pre # {} /\ req[r].resp \in {200, 500}) =>
            /\ req[r].resp = 200
            /\ \A o \in req[r].pre :
                  Cardinality(RowsFor(Table(req[r].kind), req[r].org, o)) = 1

\* the opportunity ids a request names
Requested(r) == {req[r].opps[i] : i \in 1..Len(req[r].opps)}

\* C7: a finished batch request has written a row for every requested
\* opportunity, or it failed and has written none
C7_BatchAllOrNothing ==
    \A r \in ReqIds :
        (req[r].kind = "batch" /\ req[r].pc = "done") =>
            IF req[r].resp = 200
            THEN req[r].wrote = Requested(r)
            ELSE req[r].wrote = {}

\* a batch of two opportunities failed at commit on the one that had a row,
\* and the other one has no row
C7_Witness ==
    \E r \in ReqIds :
        /\ req[r].kind = "batch" /\ req[r].pc = "done"
        /\ req[r].resp = 500
        /\ Cardinality(Requested(r)) = 2
        /\ req[r].wrote = {}
        /\ \E o \in Requested(r) : RowsFor(relevance_scores, req[r].org, o) = {}
        /\ \E o \in Requested(r) : RowsFor(relevance_scores, req[r].org, o) # {}

\* a request names an organization or an opportunity that does not exist
NamesMissing(r) ==
    \/ req[r].org \notin DOMAIN organizations
    \/ \E o \in Requested(r) : \A row \in opportunities : row.id # o

\* C8 as stated: a scoring request that names a missing organization or
\* opportunity is answered with a not-found error (404) and writes no row
C8_NotFound404 ==
    \A r \in ReqIds :
        (req[r].pc = "done" /\ NamesMissing(r)) =>
            /\ req[r].resp = 404
            /\ req[r].wrote = {}

\* C8: a scoring request that names a missing organization or opportunity
\* writes no row and is answered with 404, except that a batch request whose
\* organization exists and that names a missing opportunity is answered 400
C8_NotFoundNoWrite ==
    \A r \in ReqIds :
        (req[r].pc = "done" /\ NamesMissing(r)) =>
            /\ req[r].resp = IF req[r].kind = "batch"
                                /\ req[r].org \in DOMAIN organizations
                             THEN 400 ELSE 404
            /\ req[r].wrote = {}
            /\ \A x \in relevance_scores \cup risk_assessments : x.by # r

\* a request naming a missing opportunity was refused while the pair's table
\* holds rows
C8_Witness ==
    \E r \in ReqIds :
        /\ req[r].pc = "done" /\ NamesMissing(r)
        /\ req[r].org \in DOMAIN organizations
        /\ req[r].resp \in {400, 404}
        /\ Table(req[r].kind) # {}

(***************************************************************************)
(* Calls of single scoring functions on bounded inputs.  Scores are kept   *)
(* in hundredths (1.0 is 100) unless a definition says otherwise.          *)
(***************************************************************************)
\* everything but the call is at rest
RestIdle == EligIdle /\ IngestIdle /\ ScoringIdle

FnFrame == UNCHANGED <<eligVars, dbVars, procVars>>

(***************************************************************************)
(* RelevanceScorer._calculate_size_score.                                  *)
(***************************************************************************)
\* opportunity.estimated_value_max and organization.annual_revenue, in
\* millions; 0 stands for a value that is None or 0
ValueMaxes == {0, 1, 5, 15, 30, 40}

Revenues == {0, 20}

InitSize ==
    /\ RestIdle
    /\ call \in [fn : {"size"}, done : {FALSE}, org : CertSets,
                 opp : OppSetAsides, value : ValueMaxes, revenue : Revenues]

call_calculate_size_score ==
    /\ call.fn = "size" /\ ~call.done
    /\ call' = [fn |-> "size", done |-> TRUE, org |-> call.org, opp |-> call.opp,
                value |-> call.value, revenue |-> call.revenue,
                out |-> _calculate_size_score(call.org, call.opp,
                                              call.value, call.revenue)]
    /\ FnFrame

NextSize == call_calculate_size_score

SpecSize == InitSize /\ [][NextSize]_vars

\* C11: the size sub-score is min(e, cap(r)): e is 0.2 when the opportunity
\* requires a set-aside the organization is not eligible for under the
\* lattice (an organization without certifications and a required SDB
\* included) and 1.0 otherwise; cap(r) is the capacity band when value and
\* revenue are both present and 1.0 otherwise
C11_SizeScore ==
    (call.fn = "size" /\ call.done /\ call.opp \in SetAsideType \cup {""}) =>
        LET e   == IF call.opp # "" /\ ~is_eligible_for_set_aside(call.org, call.opp)
                   THEN 20 ELSE 100
            cap == IF call.value = 0 \/ call.revenue = 0 THEN 100
                   ELSE IF 10 * call.value < call.revenue THEN 95
                   ELSE IF 10 * call.value < 5 * call.revenue THEN 100
                   ELSE IF call.value < call.revenue THEN 80
                   ELSE IF call.value < 2 * call.revenue THEN 50
                   ELSE 20
        IN  call.out = Min(e, cap)

(***************************************************************************)
(* Python float arithmetic (IEEE 754 binary64, round to nearest, ties to   *)
(* even) on the values the scorers compute.  A float x in [0, 2) is kept   *)
(* as the natural number x * 2^60, written in limbs of 15 bits, least      *)
(* significant first; every float of the model that is not 0 is at least   *)
(* 2^-8, so that it is a whole multiple of 2^-60.                          *)
(***************************************************************************)
Limbs == 1..10

Base == 2^15

\* F(x) and F(x, y) with the arguments evaluated first
Strict1(F(_), x) == CHOOSE r \in {F(a) : a \in {x}} : TRUE

Strict2(F(_, _), x, y) == CHOOSE r \in {F(a, b) : a \in {x}, b \in {y}} : TRUE

\* the limbs of f as a tuple
Tup(f) == <<f[1], f[2], f[3], f[4], f[5], f[6], f[7], f[8], f[9], f[10]>>

BigZero == Tup([i \in Limbs |-> 0])

\* the natural number n < 2^30
Small(n) == Tup([i \in Limbs |-> IF i = 1 THEN n % Base ELSE IF i = 2 THEN n \div Base ELSE 0])

RECURSIVE Carry(_, _)
Carry(a, i) == IF i = 0 THEN 0 ELSE (a[i] + Carry(a, i - 1)) \div Base

\* limbs below Base again
Norm(a) == Tup([i \in Limbs |-> (a[i] + Carry(a, i - 1)) % Base])

BigAdd(a, b) == Norm(Tup([i \in Limbs |-> a[i] + b[i]]))

RECURSIVE ConvLo(_, _, _, _)
ConvLo(a, b, k, i) ==
    IF i = 0 THEN 0 ELSE ((a[i] * b[k + 1 - i]) % Base) + ConvLo(a, b, k, i - 1)

RECURSIVE ConvHi(_, _, _, _)
ConvHi(a, b, k, i) ==
    IF i = 0 THEN 0 ELSE ((a[i] * b[k + 1 - i]) \div Base) + ConvHi(a, b, k, i - 1)

BigMul(a, b) ==
    Norm(Tup([k \in Limbs |-> ConvLo(a, b, k, k) + ConvHi(a, b, k - 1, k - 1)]))

\* a * n and a / n for a natural number 0 < n < Base
MulSmall(a, n) == Norm(Tup([i \in Limbs |-> a[i] * n]))

RECURSIVE DivRem(_, _, _)
DivRem(a, n, i) == IF i \notin Limbs THEN 0 ELSE (DivRem(a, n, i + 1) * Base + a[i]) % n

DivSmall(a, n) == Tup([i \in Limbs |-> (DivRem(a, n, i + 1) * Base + a[i]) \div n])

LimbBits(x) == CHOOSE n \in 0..15 : x < 2^n /\ (n = 0 \/ x >= 2^(n - 1))

Top(a) == CHOOSE i \in Limbs : a[i] # 0 /\ \A j \in Limbs : j > i => a[j] = 0

BitLen(a) == IF a = BigZero THEN 0 ELSE 15 * (Top(a) - 1) + LimbBits(a[Top(a)])

\* floor(a / 2^d), a mod 2^d, 2^d and a * 2^d
ShiftR(a, d) ==
    LET q == d \div 15
        r == d % 15
        at(i) == IF i \in Limbs THEN a[i] ELSE 0
    IN  Tup([i \in Limbs |-> (at(i + q) \div 2^r) + (at(i + q + 1) % 2^r) * 2^(15 - r)])

Low(a, d) ==
    Tup([i \in Limbs |-> IF i <= d \div 15 THEN a[i]
                     ELSE IF i = d \div 15 + 1 THEN a[i] % 2^(d % 15) ELSE 0])

Pow2Big(d) == Tup([i \in Limbs |-> IF i = d \div 15 + 1 THEN 2^(d % 15) ELSE 0])

ShiftL(a, d) == BigMul(a, Pow2Big(d))

Less(a, b) == \E i \in Limbs : a[i] < b[i] /\ \A j \in Limbs : j > i => a[j] = b[j]

\* a rounded to a multiple of 2^d, ties to even (d >= 1)
RoundedQuotient(a, d) ==
    LET q    == ShiftR(a, d)
        low  == Low(a, d)
        half == Pow2Big(d - 1)
        up   == Less(half, low) \/ (low = half /\ q[1] % 2 = 1)
    IN  IF up THEN BigAdd(q, Small(1)) ELSE q

RoundBits(a, d) == Strict2(ShiftL, RoundedQuotient(a, d), d)

\* a rounded to 53 significant bits
Round53(a) == IF BitLen(a) <= 53 THEN a ELSE RoundBits(a, BitLen(a) - 53)

\* x + y and x * y
FAdd(x, y) == Strict1(Round53, Strict2(BigAdd, x, y))

Unscale(a) == ShiftR(a, 60)

FMul(x, y) == Strict1(Unscale, Strict1(Round53, Strict2(BigMul, x, y)))

LessEq(x, y) == x = y \/ Less(x, y)

FLessEq(x, y) == Strict2(LessEq, x, y)

\* the float a decimal literal n/d denotes (the nearest one), 0 <= n <= d < Base
\* floor(t / d), made odd when the division leaves a remainder
StickyQuotient(t, d) ==
    LET q == DivSmall(t, d)
    IN  IF DivRem(t, d, 1) # 0 /\ q[1] % 2 = 0
        THEN [q EXCEPT ![1] = @ + 1] ELSE q

Quotient(n, d) == Strict2(StickyQuotient, Strict2(ShiftL, Small(n), 75), d)

Unguard(a) == ShiftR(a, 15)

Dec(n, d) == Strict1(Unguard, Strict1(Round53, Strict2(Quotient, n, d)))

\* round(x, 4) in ten-thousandths: x * 10^4 rounded to an integer, ties to even
TenThousandths(t) ==
    LET m    == ShiftR(t, 60)[1]
        low  == Low(t, 60)
        half == Pow2Big(59)
        up   == Less(half, low) \/ (low = half /\ m % 2 = 1)
    IN  IF up THEN m + 1 ELSE m

Round4Int(x) == Strict1(TenThousandths, Strict2(MulSmall, x, 10000))

\* round(x, 4)
Round4(x) == Dec(Round4Int(x), 10000)

Smaller(x, y) == IF Less(y, x) THEN y ELSE x

FMin(x, y) == Strict2(Smaller, x, y)
(***************************************************************************)
(* RiskAssessor.assess_risk in float arithmetic.                           *)
(***************************************************************************)
\* a decimal literal with two places
D2(n) == Dec(n, 100)

\* the sum 0.0 + s[1] + s[2] + ..., added from the left
RECURSIVE FSum(_)
FSum(s) == IF s = <<>> THEN BigZero ELSE FAdd(FSum(SubSeq(s, 1, Len(s) - 1)), s[Len(s)])

\* str.startswith on codes written as sequences of characters
StartsWith(s, prefix) ==
    Len(prefix) <= Len(s) /\ SubSeq(s, 1, Len(prefix)) = prefix

\* s[:n]
Prefix(s, n) == SubSeq(s, 1, Min(n, Len(s)))

\* the float constants of the risk rules
P10 == D2(10)
P15 == D2(15)
P20 == D2(20)
P30 == D2(30)
P40 == D2(40)
P50 == D2(50)
P60 == D2(60)
P70 == D2(70)
P80 == D2(80)
P100 == D2(100)

RISK_THRESHOLDS == [low |-> D2(25), medium |-> D2(50), high |-> D2(75)]

CATEGORY_WEIGHTS ==
    [eligibility |-> D2(25), technical |-> D2(20), pricing |-> D2(15),
     resource |-> D2(15), compliance |-> D2(15), timeline |-> D2(10)]

_score_to_level(score) ==
    IF FLessEq(score, RISK_THRESHOLDS.low) THEN "low"
    ELSE IF FLessEq(score, RISK_THRESHOLDS.medium) THEN "medium"
    ELSE IF FLessEq(score, RISK_THRESHOLDS.high) THEN "high"
    ELSE "critical"

\* RiskCategory(level=_score_to_level(risk_score), score=risk_score) after
\* risk_score = min(1.0, risk_score); adds are the amounts added, in order
\* RiskCategory without the clamp min(1.0, score)
RiskCategory_unclamped(adds) ==
    Strict1(LAMBDA risk_score :
                [score |-> risk_score, level |-> _score_to_level(risk_score)],
            FSum(adds))

RiskCategory(adds) ==
    Strict1(LAMBDA risk_score :
                [score |-> risk_score, level |-> _score_to_level(risk_score)],
            FMin(P100, FSum(adds)))

eligibility_adds(org, opp) ==
    (IF opp.set_aside_type # ""
        /\ risk_setaside_ineligible(org.set_aside_types, opp.set_aside_type)
     THEN <<P80>> ELSE <<>>)
    \o (IF ClearanceMatches(opp.security_clearance_required) THEN <<P40>> ELSE <<>>)
    \o (IF ~org.uei THEN <<P30>> ELSE <<>>)

technical_adds(org, opp) ==
    (IF opp.naics_code # <<>> /\ org.naics_codes # {}
     THEN IF ~\E n \in org.naics_codes : StartsWith(n, Prefix(opp.naics_code, 2))
          THEN <<P50>>
          ELSE IF ~\E n \in org.naics_codes : StartsWith(n, Prefix(opp.naics_code, 4))
               THEN <<P20>> ELSE <<>>
     ELSE <<>>)
    \o (IF opp.psc_code # <<>> /\ org.psc_codes # {}
           /\ ~\E p \in org.psc_codes : StartsWith(p, Prefix(opp.psc_code, 2))
        THEN <<P30>> ELSE <<>>)
    \o (IF ~org.capabilities_narrative THEN <<P20>> ELSE <<>>)

\* contract_type.lower() contains "cost", "cpff" or "cpaf"
IsCostType(contract_type) == contract_type \in {"CPFF", "Cost Plus Award Fee"}

\* estimated_value_max and annual_revenue are in units of 150,000 dollars
pricing_adds(org, opp) ==
    (IF opp.estimated_value_max # 0 /\ org.annual_revenue # 0
     THEN IF opp.estimated_value_max > 2 * org.annual_revenue THEN <<P60>>
          ELSE IF opp.estimated_value_max > org.annual_revenue THEN <<P30>>
          ELSE <<>>
     ELSE <<>>)
    \o (IF IsCostType(opp.contract_type) THEN <<P20>> ELSE <<>>)
    \o (IF opp.notice_type = "Sources Sought" THEN <<P10>> ELSE <<>>)

resource_adds(org, opp) ==
    (IF org.employee_count # 0 /\ opp.estimated_value_max # 0
     THEN IF 10 * opp.estimated_value_max > 5 * org.employee_count THEN <<P40>>
          ELSE IF 10 * opp.estimated_value_max > 3 * org.employee_count THEN <<P20>>
          ELSE <<>>
     ELSE <<>>)
    \o (IF opp.place_of_performance_state # "" /\ org.state # ""
           /\ opp.place_of_performance_state # org.state
        THEN <<P20>> ELSE <<>>)

\* contracting_office_name.lower() contains defense, army, navy, air force or dod
IsDefenseOffice(office) == office \in {"Dept of Defense", "US Army"}

regulated_sectors == {<<"5", "4", "1">>, <<"3", "3", "6">>, <<"5", "6", "2">>, <<"6", "2", "2">>}

compliance_adds(org, opp) ==
    (IF IsDefenseOffice(opp.contracting_office_name) THEN <<P20>> ELSE <<>>)
    \o (IF opp.naics_code # <<>>
           /\ \E sector \in regulated_sectors : StartsWith(Prefix(opp.naics_code, 3), sector)
        THEN <<P15>> ELSE <<>>)
    \o (IF opp.security_clearance_required # "" THEN <<P20>> ELSE <<>>)

\* times are in half days; timedelta.days is the floor of the difference in days
HalfDaysPerDay == 2

NoDeadline == [present |-> FALSE, at |-> 0]

Deadline(t) == [present |-> TRUE, at |-> t]

days_remaining(deadline, now) == (deadline.at - now) \div HalfDaysPerDay

\* the bands of _assess_timeline_risk with every bound included in its band
timeline_adds_inclusive(deadline, now) ==
    IF deadline.present
    THEN LET days == days_remaining(deadline, now)
         IN  IF days < 0 THEN <<P100>>
             ELSE IF days <= 7 THEN <<P70>>
             ELSE IF days <= 14 THEN <<P40>>
             ELSE IF days <= 30 THEN <<P20>>
             ELSE <<>>
    ELSE <<P10>>

\* _assess_timeline_risk: the amounts added and the factors
timeline_adds(deadline, now) ==
    IF deadline.present
    THEN LET days == days_remaining(deadline, now)
         IN  IF days < 0 THEN <<P100>>
             ELSE IF days < 7 THEN <<P70>>
             ELSE IF days < 14 THEN <<P40>>
             ELSE IF days < 30 THEN <<P20>>
             ELSE <<>>
    ELSE <<P10>>

timeline_factors(deadline, now) ==
    IF deadline.present
    THEN LET days == days_remaining(deadline, now)
         IN  IF days < 0 THEN {"Response deadline has passed"}
             ELSE IF days < 7 THEN {"Only N days until deadline - urgent"}
             ELSE IF days < 14 THEN {"N days until deadline - tight timeline"}
             ELSE IF days < 30 THEN {"N days until deadline - manageable"}
             ELSE {}
    ELSE {"No response deadline specified"}

_assess_timeline_risk(deadline, now) ==
    RiskCategory(timeline_adds(deadline, now))
        @@ [factors |-> timeline_factors(deadline, now)]

\* assess_risk, lines 88-132
assess_risk(org, opp, now) ==
    Strict1(LAMBDA c :
        Strict1(LAMBDA overall_score :
                    [overall_risk_level |-> _score_to_level(overall_score),
                     overall_risk_score |-> Round4(overall_score)] @@ c,
                FAdd(FAdd(FAdd(FAdd(FAdd(
                    FMul(c.eligibility_risk.score, CATEGORY_WEIGHTS.eligibility),
                    FMul(c.technical_risk.score, CATEGORY_WEIGHTS.technical)),
                    FMul(c.pricing_risk.score, CATEGORY_WEIGHTS.pricing)),
                    FMul(c.resource_risk.score, CATEGORY_WEIGHTS.resource)),
                    FMul(c.compliance_risk.score, CATEGORY_WEIGHTS.compliance)),
                    FMul(c.timeline_risk.score, CATEGORY_WEIGHTS.timeline))),
        [eligibility_risk |-> RiskCategory(eligibility_adds(org, opp)),
         technical_risk   |-> RiskCategory(technical_adds(org, opp)),
         pricing_risk     |-> RiskCategory(pricing_adds(org, opp)),
         resource_risk    |-> RiskCategory(resource_adds(org, opp)),
         compliance_risk  |-> RiskCategory(compliance_adds(org, opp)),
         timeline_risk    |-> _assess_timeline_risk(opp.response_deadline, now)])

\* NAICS and PSC codes as sequences of characters
N541512 == <<"5", "4", "1", "5", "1", "2">>
N541990 == <<"5", "4", "1", "9", "9", "0">>
N236220 == <<"2", "3", "6", "2", "2", "0">>
PscD302 == <<"D", "3", "0", "2">>
PscR408 == <<"R", "4", "0", "8">>

\* the current time of the calls, in half days
Now == 10

RiskOrgs ==
    [set_aside_types : {{"SB"}}, uei : BOOLEAN,
     naics_codes : {{N541512}, {N541990, N236220}},
     psc_codes : {{PscR408}},
     capabilities_narrative : {TRUE},
     annual_revenue : {0, 20}, employee_count : {0, 10}, state : {"VA"}]

RiskOpps ==
    [set_aside_type : {"", "8A"}, security_clearance_required : {""},
     naics_code : {N541512, N236220}, psc_code : {PscD302},
     estimated_value_max : {0, 30}, contract_type : {""},
     notice_type : {""}, place_of_performance_state : {"VA", "MD"},
     contracting_office_name : {""},
     response_deadline : {NoDeadline} \cup
         {Deadline(Now + HalfDaysPerDay * d) : d \in {0 - 1, 3, 40}}]

InitRisk ==
    /\ RestIdle
    /\ call \in [fn : {"assess_risk"}, done : {FALSE}, org : RiskOrgs, opp : RiskOpps]

call_assess_risk ==
    /\ call.fn = "assess_risk" /\ ~call.done
    /\ call' = [fn |-> "assess_risk", done |-> TRUE, org |-> call.org,
                opp |-> call.opp, out |-> assess_risk(call.org, call.opp, Now)]
    /\ FnFrame

NextRisk == call_assess_risk

SpecRisk == InitRisk /\ [][NextRisk]_vars

RiskCategories ==
    {"eligibility_risk", "technical_risk", "pricing_risk", "resource_risk",
     "compliance_risk", "timeline_risk"}

\* the band of a score: <= 0.25 low, <= 0.50 medium, <= 0.75 high, else critical
RiskBand(score) ==
    IF FLessEq(score, Dec(25, 100)) THEN "low"
    ELSE IF FLessEq(score, Dec(50, 100)) THEN "medium"
    ELSE IF FLessEq(score, Dec(75, 100)) THEN "high"
    ELSE "critical"

\* C12: in the result of assess_risk the level of every category is the band
\* of its score, and overall_risk_level is the band of the returned
\* overall_risk_score
C12_LevelIsBandOfScore ==
    (call.fn = "assess_risk" /\ call.done) =>
        /\ \A c \in RiskCategories : call.out[c].level = RiskBand(call.out[c].score)
        /\ call.out.overall_risk_level = RiskBand(call.out.overall_risk_score)

(***************************************************************************)
(* WinProbabilityModel.calculate_win_probability in float arithmetic.      *)
(* The text searches of the factors (words of one text found in another)   *)
(* are inputs: the record txt says what each search finds.                 *)
(***************************************************************************)
P5 == D2(5)
P25 == D2(25)
P55 == D2(55)
P75 == D2(75)
P85 == D2(85)
P90 == D2(90)
P95 == D2(95)

\* the length of the common prefix of two codes
RECURSIVE MatchLength(_, _)
MatchLength(a, b) ==
    IF a = <<>> \/ b = <<>> \/ Head(a) # Head(b) THEN 0
    ELSE 1 + MatchLength(Tail(a), Tail(b))

FACTOR_WEIGHTS ==
    [capability_match |-> P20, setaside_eligibility |-> P20,
     past_performance |-> P20, agency_relationship |-> P15,
     geographic_fit |-> P10, competition_level |-> P10, pricing_position |-> P5]

\* lines 175-189: the score one organization code gives
capability_naics_value(match_length) ==
    IF match_length >= 6 THEN P100
    ELSE IF match_length >= 5 THEN P90
    ELSE IF match_length >= 4 THEN P75
    ELSE IF match_length >= 3 THEN P50
    ELSE IF match_length >= 2 THEN P25
    ELSE BigZero

\* the largest element of a non-empty set of floats
FMaxOf(S) == CHOOSE x \in S : \A y \in S : FLessEq(y, x)

_score_capability_match(org, opp, txt) ==
    LET naics == IF opp.naics_code # <<>> /\ org.naics_codes # {}
                 THEN FMaxOf({BigZero} \cup
                        {capability_naics_value(MatchLength(opp.naics_code, n))
                           : n \in org.naics_codes})
                 ELSE BigZero
        psc   == IF opp.psc_code # <<>> /\ opp.psc_code \in org.psc_codes
                 THEN FMin(P100, FAdd(naics, P15)) ELSE naics
        kw    == IF txt.keyword_matches > 3
                 THEN FMin(P100, FAdd(psc, P10)) ELSE psc
    IN  Round4(kw)

\* _score_setaside_eligibility as a float
F_score_setaside_eligibility(org, opp) ==
    D2(_score_setaside_eligibility(org.set_aside_types, opp.set_aside_type))

_score_past_performance(org, opp, txt) ==
    IF ~org.past_performance_summary THEN P40
    ELSE Round4(FMin(P100, FSum(
            <<P40>>
            \o (IF opp.naics_code # <<>> /\ txt.naics_words_in_pp THEN <<P20>> ELSE <<>>)
            \o (IF opp.contracting_office_name # "" /\ txt.office_words_in_pp
                THEN <<P20>> ELSE <<>>)
            \o (IF opp.contract_type # "" /\ txt.contract_words_in_pp
                THEN <<P15>> ELSE <<>>))))

_score_agency_relationship(org, opp, txt) ==
    IF opp.contracting_office_name = "" THEN P50
    ELSE IF ~org.past_performance_summary THEN P30
    ELSE IF txt.agency_words_in_pp THEN Round4(P80)
    ELSE IF txt.pp_longer_than_100 THEN Round4(P50)
    ELSE Round4(P30)

dc_metro == {"DC", "VA", "MD"}

win_adjacent_states ==
    [VA |-> {"DC", "MD", "WV", "NC", "TN", "KY"},
     MD |-> {"DC", "VA", "WV", "PA", "DE"},
     DC |-> {"VA", "MD"},
     CA |-> {"OR", "NV", "AZ"},
     TX |-> {"NM", "OK", "AR", "LA"},
     FL |-> {"GA", "AL"},
     NY |-> {"NJ", "CT", "PA", "VT", "MA"},
     IL |-> {"WI", "IN", "MO", "IA", "KY"}]

\* _score_geographic_fit in hundredths; remote says whether the description
\* mentions remote work or telework
geographic_fit(org_state, opp_state, remote) ==
    IF org_state = "" \/ opp_state = "" THEN 60
    ELSE IF org_state = opp_state THEN 100
    ELSE IF org_state \in dc_metro /\ opp_state \in dc_metro THEN 90
    ELSE IF org_state \in DOMAIN win_adjacent_states
            /\ opp_state \in Get(win_adjacent_states, org_state, {}) THEN 75
    ELSE IF remote THEN 80
    ELSE 40

_score_geographic_fit(org, opp, txt) ==
    D2(geographic_fit(org.state, opp.place_of_performance_state, txt.remote))

\* _score_competition_level on the notice types of the model
_score_competition_level(opp) ==
    CASE opp.notice_type = ""                 -> P50
      [] opp.notice_type = "Sole Source"      -> P20
      [] opp.notice_type = "Sources Sought"   -> P70
      [] opp.notice_type = "Presolicitation"  -> P60
      [] opp.notice_type = "Solicitation"     -> P50
      [] opp.notice_type = "Award Notice"     -> P10
      [] OTHER                                -> P50

\* estimated_value_max and annual_revenue in the same unit
_score_pricing_position(org, opp) ==
    LET v == opp.estimated_value_max
        r == org.annual_revenue
    IN  IF v = 0 \/ r = 0 THEN P60
        ELSE IF 10 * v < r THEN P90
        ELSE IF 10 * v < 3 * r THEN P100
        ELSE IF 2 * v < r THEN P85
        ELSE IF v < r THEN P60
        ELSE IF v < 2 * r THEN P40
        ELSE P20

\* each recommendation text is named by the words before its dash
_generate_recommendation(win_prob) ==
    IF FLessEq(P70, win_prob) THEN "STRONG PURSUE"
    ELSE IF FLessEq(P55, win_prob) THEN "PURSUE"
    ELSE IF FLessEq(P40, win_prob) THEN "EVALUATE"
    ELSE IF FLessEq(P25, win_prob) THEN "SELECTIVE"
    ELSE "MONITOR ONLY"

FactorNames ==
    <<"capability_match", "setaside_eligibility", "past_performance",
      "agency_relationship", "geographic_fit", "competition_level",
      "pricing_position">>

\* the natural number n as a float
FInt(n) == ShiftL(Small(n), 60)

_calculate_confidence(org, opp, txt, factors) ==
    LET extreme_factors ==
            Cardinality({i \in 1..Len(FactorNames) :
                            \/ Less(P80, factors[FactorNames[i]])
                            \/ Less(factors[FactorNames[i]], P20)})
        confidence == FSum(
            <<P50>>
            \o (IF org.naics_codes # {} THEN <<P10>> ELSE <<>>)
            \o (IF org.past_performance_summary THEN <<P10>> ELSE <<>>)
            \o (IF org.set_aside_types # {} THEN <<P5>> ELSE <<>>)
            \o (IF org.annual_revenue # 0 THEN <<P5>> ELSE <<>>)
            \o (IF opp.naics_code # <<>> THEN <<P5>> ELSE <<>>)
            \o (IF txt.description_longer_than_100 THEN <<P5>> ELSE <<>>)
            \o (IF opp.estimated_value_max # 0 THEN <<P5>> ELSE <<>>)
            \o <<FMul(FInt(extreme_factors), D2(2))>>)
    IN  FMin(P95, confidence)

calculate_win_probability(org, opp, txt) ==
    Strict1(LAMBDA factors :
        Strict1(LAMBDA win_probability :
                    [win_probability |-> Round4(win_probability),
                     factors |-> factors,
                     recommendation |-> _generate_recommendation(win_probability),
                     confidence |->
                         Round4(_calculate_confidence(org, opp, txt, factors))],
                FSum([i \in 1..Len(FactorNames) |->
                        FMul(factors[FactorNames[i]],
                             FACTOR_WEIGHTS[FactorNames[i]])])),
        [capability_match     |-> _score_capability_match(org, opp, txt),
         setaside_eligibility |-> F_score_setaside_eligibility(org, opp),
         past_performance     |-> _score_past_performance(org, opp, txt),
         agency_relationship  |-> _score_agency_relationship(org, opp, txt),
         geographic_fit       |-> _score_geographic_fit(org, opp, txt),
         competition_level    |-> _score_competition_level(opp),
         pricing_position     |-> _score_pricing_position(org, opp)])

N238210 == <<"2", "3", "8", "2", "1", "0">>

WinOrgs ==
    [naics_codes : {{N236220}, {N238210}}, psc_codes : {{PscR408}},
     set_aside_types : {{"SB"}}, past_performance_summary : BOOLEAN,
     state : {"", "VA"}, annual_revenue : {20}]

WinOpps ==
    [naics_code : {N236220}, psc_code : {PscD302}, set_aside_type : {"", "8A"},
     contracting_office_name : {"", "Department of Defense"},
     contract_type : {""}, notice_type : {"", "Sources Sought"},
     place_of_performance_state : {"MD", "TX"}, estimated_value_max : {0, 50}]

WinTexts ==
    [keyword_matches : {0}, naics_words_in_pp : {FALSE},
     office_words_in_pp : BOOLEAN, contract_words_in_pp : {FALSE},
     agency_words_in_pp : BOOLEAN, pp_longer_than_100 : {FALSE},
     remote : {FALSE}, description_longer_than_100 : {FALSE}]

InitWin ==
    /\ RestIdle
    /\ call \in [fn : {"win"}, done : {FALSE}, org : WinOrgs, opp : WinOpps,
                 txt : WinTexts]

call_calculate_win_probability ==
    /\ call.fn = "win" /\ ~call.done
    /\ call' = [fn |-> "win", done |-> TRUE, org |-> call.org, opp |-> call.opp,
                txt |-> call.txt,
                out |-> calculate_win_probability(call.org, call.opp, call.txt)]
    /\ FnFrame

NextWin == call_calculate_win_probability

SpecWin == InitWin /\ [][NextWin]_vars

\* C13: the recommendation is the band of the returned win_probability:
\* >= 0.70 STRONG PURSUE, >= 0.55 PURSUE, >= 0.40 EVALUATE, >= 0.25 SELECTIVE,
\* otherwise MONITOR
C13_RecommendationIsBand ==
    (call.fn = "win" /\ call.done) =>
        LET p == call.out.win_probability
        IN  call.out.recommendation =
                IF FLessEq(Dec(70, 100), p) THEN "STRONG PURSUE"
                ELSE IF FLessEq(Dec(55, 100), p) THEN "PURSUE"
                ELSE IF FLessEq(Dec(40, 100), p) THEN "EVALUATE"
                ELSE IF FLessEq(Dec(25, 100), p) THEN "SELECTIVE"
                ELSE "MONITOR ONLY"

(***************************************************************************)
(* RelevanceScorer.calculate_score in float arithmetic.  The keyword sets  *)
(* _extract_keywords gives and the word searches of the past-performance   *)
(* score are inputs; a keyword is a number.                                *)
(***************************************************************************)
\* x / n for a float x and a natural number n >= 1
GuardedQuotient(x, n) == Strict2(StickyQuotient, Strict2(ShiftL, x, 15), n)

FDivInt(x, n) == Strict1(Unguard, Strict1(Round53, Strict2(GuardedQuotient, x, n)))

DEFAULT_WEIGHTS ==
    [naics |-> P25, semantic |-> P30, geographic |-> P15, size |-> P15,
     past_performance |-> P15]

STATE_ADJACENCY ==
    [VA |-> {"DC", "MD", "WV", "NC", "TN", "KY"},
     MD |-> {"DC", "VA", "WV", "PA", "DE"},
     DC |-> {"VA", "MD"},
     CA |-> {"OR", "NV", "AZ"},
     TX |-> {"NM", "OK", "AR", "LA"},
     FL |-> {"GA", "AL"}]

\* lines 162-173: the score of one organization code, in hundredths
naics_table(match_length) ==
    IF match_length >= 6 THEN 100
    ELSE IF match_length >= 5 THEN 90
    ELSE IF match_length >= 4 THEN 75
    ELSE IF match_length >= 3 THEN 50
    ELSE IF match_length >= 2 THEN 25
    ELSE 0

Max(a, b) == IF a >= b THEN a ELSE b

\* the loop keeping the score of the code it saw last
RECURSIVE naics_loop_last_score(_, _, _)
naics_loop_last_score(opp_naics, org_naics_codes, best_score) ==
    IF org_naics_codes = <<>> THEN best_score
    ELSE LET score == naics_table(MatchLength(opp_naics, Head(org_naics_codes)))
         IN  IF score = 100 THEN score
             ELSE naics_loop_last_score(opp_naics, Tail(org_naics_codes), score)

\* lines 149-178: the loop over the organization's codes, from best_score on
RECURSIVE naics_loop(_, _, _)
naics_loop(opp_naics, org_naics_codes, best_score) ==
    IF org_naics_codes = <<>> THEN best_score
    ELSE LET score == naics_table(MatchLength(opp_naics, Head(org_naics_codes)))
             best  == Max(best_score, score)
         IN  IF best = 100 THEN best
             ELSE naics_loop(opp_naics, Tail(org_naics_codes), best)

\* in hundredths; org_naics_codes is a list
_calculate_naics_score(org_naics_codes, opp_naics_code) ==
    IF opp_naics_code = <<>> \/ org_naics_codes = <<>> THEN 50
    ELSE naics_loop(opp_naics_code, org_naics_codes, 0)

\* org_keywords and opp_keywords are empty when the text is
_calculate_semantic_score(org_keywords, opp_keywords) ==
    IF org_keywords = {} \/ opp_keywords = {} THEN P50
    ELSE LET intersection == Cardinality(org_keywords \cap opp_keywords)
             union        == Cardinality(org_keywords \cup opp_keywords)
             jaccard      == Dec(intersection, union)
         IN  FMin(P100, FMul(jaccard, FInt(5)))

dc_area == {"DC", "VA", "MD"}

\* in hundredths; the states of the model are upper case
_calculate_geographic_score(org_state, opp_state) ==
    IF org_state = "" \/ opp_state = "" THEN 60
    ELSE IF org_state = opp_state THEN 100
    ELSE IF opp_state \in Get(STATE_ADJACENCY, org_state, {}) THEN 80
    ELSE IF org_state \in Get(STATE_ADJACENCY, opp_state, {}) THEN 80
    ELSE IF org_state \in dc_area \/ opp_state \in dc_area THEN 70
    ELSE 40

_calculate_past_performance_score(org, opp, txt) ==
    IF ~org.past_performance_summary THEN P50
    ELSE LET checks == <<opp.naics_code # <<>>, opp.contracting_office_name # "",
                         opp.contract_type # "">>
             hits   == <<txt.naics_words_in_pp, txt.office_words_in_pp,
                         txt.contract_words_in_pp>>
             total_checks == Cardinality({i \in 1..3 : checks[i]})
             relevance_indicators ==
                 Cardinality({i \in 1..3 : checks[i] /\ hits[i]})
         IN  IF total_checks = 0 THEN P60
             ELSE FAdd(P40, FDivInt(FMul(P60, FInt(relevance_indicators)),
                                    total_checks))

ComponentNames == <<"naics", "semantic", "geographic", "size", "past_performance">>

\* the weighted sum without its last term
weighted_overall_score_four_terms(scores, weights) ==
    FSum([i \in 1..4 |->
            FMul(scores[ComponentNames[i]], weights[ComponentNames[i]])])

\* lines 101-108
weighted_overall_score(scores, weights) ==
    FSum([i \in 1..Len(ComponentNames) |->
            FMul(scores[ComponentNames[i]], weights[ComponentNames[i]])])

calculate_score(org, opp, txt) ==
    Strict1(LAMBDA scores :
        Strict1(LAMBDA overall_score :
                    [overall_score          |-> Round4(overall_score),
                     naics_score            |-> Round4(scores.naics),
                     semantic_score         |-> Round4(scores.semantic),
                     geographic_score       |-> Round4(scores.geographic),
                     size_score             |-> Round4(scores.size),
                     past_performance_score |-> Round4(scores.past_performance),
                     component_weights      |-> DEFAULT_WEIGHTS],
                weighted_overall_score(scores, DEFAULT_WEIGHTS)),
        [naics      |-> D2(_calculate_naics_score(org.naics_codes, opp.naics_code)),
         semantic   |-> _calculate_semantic_score(txt.org_keywords, txt.opp_keywords),
         geographic |-> D2(_calculate_geographic_score(
                               org.state, opp.place_of_performance_state)),
         size       |-> D2(_calculate_size_score(org.set_aside_types,
                               opp.set_aside_type, opp.estimated_value_max,
                               org.annual_revenue)),
         past_performance |-> _calculate_past_performance_score(org, opp, txt)])

RelOrgs ==
    [naics_codes : {<<N236220, N541512>>, <<N541990>>},
     set_aside_types : {{"SB"}}, state : {"", "VA"}, annual_revenue : {20},
     past_performance_summary : BOOLEAN]

RelOpps ==
    [naics_code : {N541512}, set_aside_type : {"", "8A"},
     place_of_performance_state : {"VA", "TX"}, estimated_value_max : {0, 30},
     contracting_office_name : {"", "Department of Defense"},
     contract_type : {""}]

RelTexts ==
    [org_keywords : {{}, 1..6}, opp_keywords : {{1}, {3, 7}, {1, 7, 8, 9}},
     naics_words_in_pp : BOOLEAN, office_words_in_pp : {TRUE},
     contract_words_in_pp : {FALSE}]

InitRelevance ==
    /\ RestIdle
    /\ call \in [fn : {"relevance"}, done : {FALSE}, org : RelOrgs, opp : RelOpps,
                 txt : RelTexts]

call_calculate_score ==
    /\ call.fn = "relevance" /\ ~call.done
    /\ call' = [fn |-> "relevance", done |-> TRUE, org |-> call.org,
                opp |-> call.opp, txt |-> call.txt,
                out |-> calculate_score(call.org, call.opp, call.txt)]
    /\ FnFrame

NextRelevance == call_calculate_score

SpecRelevance == InitRelevance /\ [][NextRelevance]_vars

(***************************************************************************)
(* services/supply_chain.py.  A text is the sequence of its characters.    *)
(***************************************************************************)
MaxComponents == 2

\* str.lower() on the characters of the model
LowerLetters ==
    <<"a", "b", "c", "d", "e", "f", "g", "h", "i", "j", "k", "l", "m",
      "n", "o", "p", "q", "r", "s", "t", "u", "v", "w", "x", "y", "z">>

UpperLetters ==
    <<"A", "B", "C", "D", "E", "F", "G", "H", "I", "J", "K", "L", "M",
      "N", "O", "P", "Q", "R", "S", "T", "U", "V", "W", "X", "Y", "Z">>

LowerChar(c) ==
    IF \E i \in 1..Len(UpperLetters) : UpperLetters[i] = c
    THEN LowerLetters[CHOOSE i \in 1..Len(UpperLetters) : UpperLetters[i] = c]
    ELSE c

str_lower(s) == [i \in 1..Len(s) |-> LowerChar(s[i])]

RECURSIVE lstrip(_)
lstrip(s) == IF s # <<>> /\ Head(s) = " " THEN lstrip(Tail(s)) ELSE s

RECURSIVE rstrip(_)
rstrip(s) ==
    IF s # <<>> /\ s[Len(s)] = " " THEN rstrip(SubSeq(s, 1, Len(s) - 1)) ELSE s

str_strip(s) == lstrip(rstrip(s))

\* sub in s
Contains(sub, s) ==
    \/ sub = <<>>
    \/ \E i \in 1..(Len(s) - Len(sub) + 1) : SubSeq(s, i, i + Len(sub) - 1) = sub

\* the keys of PROHIBITED_ENTITIES
PROHIBITED_ENTITIES ==
    {<<"h", "u", "a", "w", "e", "i">>,
     <<"z", "t", "e">>,
     <<"h", "y", "t", "e", "r", "a">>,
     <<"h", "i", "k", "v", "i", "s", "i", "o", "n">>,
     <<"d", "a", "h", "u", "a">>,
     <<"h", "u", "a", "w", "e", "i", " ", "m", "a", "r", "i", "n", "e">>,
     <<"h", "u", "a", "w", "e", "i", " ", "c", "l", "o", "u", "d">>,
     <<"h", "i", "w", "a", "t", "c", "h">>,
     <<"e", "z", "v", "i", "z">>,
     <<"l", "o", "r", "e", "x">>,
     <<"k", "a", "s", "p", "e", "r", "s", "k", "y">>}

PROHIBITED_BRANDS ==
    {[brand |-> <<"h", "o", "n", "o", "r">>, maps_to |-> <<"h", "u", "a", "w", "e", "i">>],
     [brand |-> <<"h", "i", "k", "w", "a", "t", "c", "h">>, maps_to |-> <<"h", "i", "k", "v", "i", "s", "i", "o", "n">>],
     [brand |-> <<"d", "a", "h", "u", "a", " ", "t", "e", "c", "h", "n", "o", "l", "o", "g", "y">>, maps_to |-> <<"d", "a", "h", "u", "a">>],
     [brand |-> <<"u", "n", "i", "v", "i", "e", "w">>, maps_to |-> <<"r", "e", "q", "u", "i", "r", "e", "s", "_", "r", "e", "v", "i", "e", "w">>]}

requires_review == <<"r", "e", "q", "u", "i", "r", "e", "s", "_", "r", "e", "v", "i", "e", "w">>

Kw_telecom == <<"t", "e", "l", "e", "c", "o", "m">>
Kw_network == <<"n", "e", "t", "w", "o", "r", "k">>
Kw_camera == <<"c", "a", "m", "e", "r", "a">>
Kw_surveillance == <<"s", "u", "r", "v", "e", "i", "l", "l", "a", "n", "c", "e">>
Kw_security == <<"s", "e", "c", "u", "r", "i", "t", "y">>
Name_Acme == <<"A", "c", "m", "e">>
Name_Huawei == <<"H", "u", "a", "w", "e", "i">>
Name_ZteSpace == <<"Z", "T", "E", " ">>
Name_Awe == <<"a", "w", "e">>
Name_Empty == <<>>
Name_Honor == <<"H", "o", "n", "o", "r">>
Name_Uniview == <<"U", "n", "i", "v", "i", "e", "w">>
Name_Telecom == <<"T", "e", "l", "e", "c", "o", "m">>
Name_LorexSecurity == <<"L", "o", "r", "e", "x", " ", "S", "e", "c", "u", "r", "i", "t", "y">>
Txt_Switch == <<"S", "w", "i", "t", "c", "h">>
Txt_Cisco == <<"C", "i", "s", "c", "o">>
Txt_DahuaCam == <<"D", "a", "h", "u", "a", " ", "c", "a", "m">>
Txt_ZteHub == <<"Z", "T", "E", " ", "h", "u", "b">>

\* the value of a field that is null
None == <<"null">>

\* lines 302-305
entity_matches(supplier_lower) ==
    {[kind |-> "entity", key |-> key] : key \in
        {k \in PROHIBITED_ENTITIES :
            Contains(k, supplier_lower) \/ Contains(supplier_lower, k)}}

\* lines 307-314
brand_matches(supplier_lower) ==
    {[kind |-> "brand", key |-> b.brand] : b \in
        {x \in PROHIBITED_BRANDS :
            Contains(x.brand, supplier_lower) /\ x.maps_to # requires_review}}

brand_indicators(supplier_lower) ==
    {[kind |-> "brand", key |-> b.brand] : b \in
        {x \in PROHIBITED_BRANDS :
            Contains(x.brand, supplier_lower) /\ x.maps_to = requires_review}}

\* component.get(key, "")
component_get(component, key) == Get(component, key, <<>>)

\* lines 316-324; the fields of the components are texts here
component_matches(components) ==
    {[kind |-> "component", key |-> m[1], index |-> m[2]] : m \in
        {p \in PROHIBITED_ENTITIES \X (1..Len(components)) :
            \/ Contains(p[1], str_lower(component_get(components[p[2]], "name")))
            \/ Contains(p[1], str_lower(component_get(components[p[2]], "manufacturer")))}}

\* lines 326-331
keyword_indicators(supplier_lower) ==
    (IF Contains(Kw_telecom, supplier_lower) \/ Contains(Kw_network, supplier_lower)
     THEN {[kind |-> "keyword", key |-> Kw_telecom]} ELSE {}) \cup
    (IF \/ Contains(Kw_camera, supplier_lower)
        \/ Contains(Kw_surveillance, supplier_lower)
        \/ Contains(Kw_security, supplier_lower)
     THEN {[kind |-> "keyword", key |-> Kw_camera]} ELSE {})

\* the verdict with the risk indicators looked at before the matches
section_889_status_indicators_first(matched_entities, risk_indicators) ==
    IF risk_indicators # {} THEN "requires_review"
    ELSE IF matched_entities # {} THEN "prohibited"
    ELSE "compliant"

\* lines 333-341
section_889_status(matched_entities, risk_indicators) ==
    IF matched_entities # {} THEN "prohibited"
    ELSE IF risk_indicators # {} THEN "requires_review"
    ELSE "compliant"

\* None.lower() raises AttributeError (lines 318-319)
lower_raises(components) ==
    \E i \in 1..Len(components) :
        \/ component_get(components[i], "name") = None
        \/ component_get(components[i], "manufacturer") = None

Raised == [raised |-> TRUE]

check_section_889(supplier_name, components) ==
    LET supplier_lower == str_strip(str_lower(supplier_name))
    IN  IF lower_raises(components) THEN Raised
        ELSE LET matched_entities ==
                     entity_matches(supplier_lower) \cup brand_matches(supplier_lower)
                         \cup component_matches(components)
                 risk_indicators ==
                     brand_indicators(supplier_lower) \cup
                         keyword_indicators(supplier_lower)
             IN  [raised |-> FALSE,
                  status |-> section_889_status(matched_entities, risk_indicators),
                  prohibited_entities_matched |-> matched_entities,
                  risk_indicators |-> risk_indicators]

SupplierNames ==
    {Name_Acme, Name_Huawei, Name_ZteSpace, Name_Awe, Name_Empty, Name_Honor,
     Name_Uniview, Name_Telecom, Name_LorexSecurity}

\* dictionaries with the keys "name" and "manufacturer", either absent or null
Components ==
    {[name |-> Txt_Switch, manufacturer |-> Txt_Cisco],
     [name |-> Txt_Switch, manufacturer |-> Name_Huawei],
     [name |-> Txt_DahuaCam],
     [name |-> Txt_ZteHub, manufacturer |-> None]}

ComponentLists == UNION {[1..n -> Components] : n \in 0..MaxComponents}

NoVerdict == [raised |-> FALSE, status |-> "none"]

\* components with component put in after the first at of them
InsertAt(components, at, component) ==
    SubSeq(components, 1, at) \o <<component>> \o
        SubSeq(components, at + 1, Len(components))

Init889 ==
    /\ RestIdle
    /\ call \in [fn : {"889"}, done : {FALSE}, supplier_name : SupplierNames,
                 components : ComponentLists, before : {NoVerdict},
                 out : {NoVerdict}]

\* check_section_889 on the supplier and its components
call_check_section_889 ==
    /\ call.fn = "889" /\ ~call.done /\ call.before = NoVerdict
    /\ call' = [call EXCEPT
                   !.before = check_section_889(call.supplier_name, call.components)]
    /\ FnFrame

\* check_section_889 on the same supplier with one more component
call_check_section_889_again ==
    /\ call.fn = "889" /\ ~call.done /\ call.before # NoVerdict
    /\ \E component \in Components, at \in 0..Len(call.components) :
          LET components == InsertAt(call.components, at, component)
          IN  call' = [fn |-> "889", done |-> TRUE,
                       supplier_name |-> call.supplier_name,
                       components |-> components, before |-> call.before,
                       added |-> component,
                       out |-> check_section_889(call.supplier_name, components)]
    /\ FnFrame

Next889 == call_check_section_889 \/ call_check_section_889_again

Spec889 == Init889 /\ [][Next889]_vars

Larger(x, y) == IF Less(x, y) THEN y ELSE x

\* max taken as the smaller of the two
FMax_smaller(x, y) == Strict2(Smaller, x, y)

FMax(x, y) == Strict2(Larger, x, y)

TaaStatuses == {"prohibited", "compliant", "non_compliant", "unknown"}

\* no country of origin given: taa_result is None
NoTaa == "none"

\* taa is the status of the TAA result
_calculate_risk(section_889, taa) ==
    LET s889 == IF section_889.status = "prohibited" THEN P100
                ELSE IF section_889.status = "requires_review"
                     THEN FAdd(BigZero, P40)
                ELSE BigZero
        risk_score ==
            IF taa = NoTaa THEN FAdd(s889, P20)
            ELSE IF taa = "prohibited" THEN FMax(s889, P100)
            ELSE IF taa = "non_compliant" THEN FAdd(s889, P50)
            ELSE IF taa = "unknown" THEN FAdd(s889, P30)
            ELSE s889
        risk_level ==
            IF FLessEq(P80, risk_score) THEN "critical"
            ELSE IF FLessEq(P50, risk_score) THEN "high"
            ELSE IF FLessEq(P25, risk_score) THEN "medium"
            ELSE "low"
    IN  [raised |-> FALSE, overall_risk_score |-> Round4(FMin(P100, risk_score)),
         risk_level |-> risk_level]

\* _generate_recommendations, lines 461-500: the recommendations in order
_generate_recommendations(section_889, taa, risk_level) ==
    LET recommendations ==
            (IF section_889.status = "prohibited"
             THEN <<"DO NOT PROCEED with this supplier - Section 889 violation",
                    "Identify alternative suppliers from compliant sources">>
             ELSE IF section_889.status = "requires_review"
             THEN <<"Request supplier's Section 889 compliance certification",
                    "Obtain detailed product/component listing with manufacturers">>
             ELSE <<>>) \o
            (IF taa = NoTaa
             THEN <<"Request country of origin information from supplier">>
             ELSE IF taa = "prohibited"
             THEN <<"DO NOT PROCEED - Sanctioned country of origin">>
             ELSE IF taa = "non_compliant"
             THEN <<"Request Certificate of Origin documentation",
                    "Verify if product is substantially transformed in designated country",
                    "Consider alternative suppliers from TAA-compliant countries">>
             ELSE IF taa = "unknown"
             THEN <<"Verify country of origin with supplier">>
             ELSE <<>>) \o
            (IF risk_level = "high"
             THEN <<"Consult with contracting officer before proceeding",
                    "Document all compliance verification steps">>
             ELSE <<>>)
    IN  IF recommendations = <<>>
        THEN <<"Supplier passes initial compliance screening",
               "Maintain documentation for audit purposes">>
        ELSE recommendations

\* verify_supplier, with the status of check_taa_compliance as an input
verify_supplier(supplier_name, taa, components) ==
    Strict1(LAMBDA section_889 :
                IF section_889.raised THEN Raised
                ELSE Strict1(LAMBDA risk :
                                 risk @@
                                 [section_889_result |-> section_889,
                                  recommendations |->
                                      _generate_recommendations(
                                          section_889, taa, risk.risk_level)],
                             Strict2(_calculate_risk, section_889, taa)),
            check_section_889(supplier_name, components))

InitSupplier ==
    /\ RestIdle
    /\ call \in [fn : {"supplier"}, done : {FALSE}, supplier_name : SupplierNames,
                 taa : TaaStatuses \cup {NoTaa}, components : ComponentLists]

call_verify_supplier ==
    /\ call.fn = "supplier" /\ ~call.done
    /\ call' = [fn |-> "supplier", done |-> TRUE,
                supplier_name |-> call.supplier_name, taa |-> call.taa,
                components |-> call.components,
                out |-> verify_supplier(call.supplier_name, call.taa,
                                        call.components)]
    /\ FnFrame

NextSupplier == call_verify_supplier

SpecSupplier == InitSupplier /\ [][NextSupplier]_vars

(***************************************************************************)
(* The four scorers side by side.                                          *)
(***************************************************************************)
InitScorers == InitRelevance \/ InitRisk \/ InitWin \/ InitSupplier

NextScorers == NextRelevance \/ NextRisk \/ NextWin \/ NextSupplier

SpecScorers == InitScorers /\ [][NextScorers]_vars

InUnit(x) == FLessEq(BigZero, x) /\ FLessEq(x, Dec(1, 1))

\* C14: with the default weights every relevance sub-score, every risk
\* category score, every win-probability factor and each composite (overall
\* relevance, overall risk, win probability, confidence, supplier risk score)
\* lies in [0, 1]
C14_ScoresInUnitInterval ==
    call.done =>
        CASE call.fn = "relevance" ->
                 \A f \in {"overall_score", "naics_score", "semantic_score",
                           "geographic_score", "size_score",
                           "past_performance_score"} : InUnit(call.out[f])
          [] call.fn = "assess_risk" ->
                 /\ InUnit(call.out.overall_risk_score)
                 /\ \A c \in RiskCategories : InUnit(call.out[c].score)
          [] call.fn = "win" ->
                 /\ InUnit(call.out.win_probability)
                 /\ InUnit(call.out.confidence)
                 /\ \A i \in 1..Len(FactorNames) :
                        InUnit(call.out.factors[FactorNames[i]])
          [] call.fn = "supplier" ->
                 ~call.out.raised => InUnit(call.out.overall_risk_score)
          [] OTHER -> TRUE

\* a category whose additions pass 1.0 (ineligible set-aside 0.8, no UEI 0.3)
\* has been scored
C14_Witness ==
    /\ call.fn = "assess_risk" /\ call.done
    /\ Less(Dec(1, 1), FSum(eligibility_adds(call.org, call.opp)))
    /\ call.out.eligibility_risk.score = Dec(1, 1)

\* the ten-thousandths a returned 4-decimal value stands for, and the
\* hundredths of a weight
Places4(x) == Round4Int(x)

Places2(w) == Round4Int(w) \div 100

\* C15: in every RelevanceScoreResult overall_score differs by at most 1e-4
\* from the sum over the five components of component_weights[i] times the
\* returned 4-decimal sub-score i (both sides in millionths)
C15_OverallIsWeightedSum ==
    (call.fn = "relevance" /\ call.done) =>
        LET r     == call.out
            w     == r.component_weights
            total == Places2(w.naics) * Places4(r.naics_score)
                       + Places2(w.semantic) * Places4(r.semantic_score)
                       + Places2(w.geographic) * Places4(r.geographic_score)
                       + Places2(w.size) * Places4(r.size_score)
                       + Places2(w.past_performance) * Places4(r.past_performance_score)
            diff  == 100 * Places4(r.overall_score) - total
        IN  -100 <= diff /\ diff <= 100

\* a result whose semantic sub-score was rounded (5/9 to 0.5556) and whose
\* overall score is not the exact weighted sum of the returned sub-scores
C15_Witness ==
    /\ call.fn = "relevance" /\ call.done
    /\ call.out.semantic_score = Dec(5556, 10000)
    /\ 100 * Places4(call.out.overall_score) #
           25 * Places4(call.out.naics_score) + 30 * 5556
             + 15 * Places4(call.out.geographic_score)
             + 15 * Places4(call.out.size_score)
             + 15 * Places4(call.out.past_performance_score)

(***************************************************************************)
(* RelevanceScorer._calculate_naics_score on lists of codes.               *)
(***************************************************************************)
MaxCodes == 3

N541519 == <<"5", "4", "1", "5", "1", "9">>
N541611 == <<"5", "4", "1", "6", "1", "1">>
N54 == <<"5", "4">>

NaicsCodes == {N541512, N541519, N541990, N541611, N54, N236220}

NaicsLists == UNION {[1..n -> NaicsCodes] : n \in 0..MaxCodes}

InitNaics ==
    /\ RestIdle
    /\ call \in [fn : {"naics"}, done : {FALSE}, org : NaicsLists,
                 opp : {<<>>, N541512, N541611}]

call_calculate_naics_score ==
    /\ call.fn = "naics" /\ ~call.done
    /\ call' = [fn |-> "naics", done |-> TRUE, org |-> call.org, opp |-> call.opp,
                out |-> _calculate_naics_score(call.org, call.opp)]
    /\ FnFrame

NextNaics == call_calculate_naics_score

SpecNaics == InitNaics /\ [][NextNaics]_vars

\* the length of the longest common prefix of two codes
CommonPrefix(a, b) ==
    CHOOSE k \in 0..Min(Len(a), Len(b)) :
        /\ SubSeq(a, 1, k) = SubSeq(b, 1, k)
        /\ \A j \in (k + 1)..Min(Len(a), Len(b)) : SubSeq(a, 1, j) # SubSeq(b, 1, j)

\* the largest of a non-empty set of numbers
Largest(S) == CHOOSE x \in S : \A y \in S : y <= x

\* the loop without the early exit
RECURSIVE naics_loop_to_the_end(_, _, _)
naics_loop_to_the_end(opp_naics, org_naics_codes, best_score) ==
    IF org_naics_codes = <<>> THEN best_score
    ELSE naics_loop_to_the_end(opp_naics, Tail(org_naics_codes),
             Max(best_score,
                 naics_table(MatchLength(opp_naics, Head(org_naics_codes)))))

\* the orderings of a list
Orderings(s) ==
    {[i \in 1..Len(s) |-> s[p[i]]] :
        p \in {q \in [1..Len(s) -> 1..Len(s)] :
                  \A i, j \in 1..Len(s) : q[i] = q[j] => i = j}}

States == {"", "VA", "MD", "DC", "WV", "PA", "KY", "IL", "TX", "NM", "CA", "NY"}

InitGeo ==
    /\ RestIdle
    /\ call \in [fn : {"geo"}, done : {FALSE}, org_state : States,
                 opp_state : States, remote : BOOLEAN]

\* both scorers on the pair and on the pair swapped, in hundredths
call_geographic_scores ==
    /\ call.fn = "geo" /\ ~call.done
    /\ call' = [fn |-> "geo", done |-> TRUE, org_state |-> call.org_state,
                opp_state |-> call.opp_state, remote |-> call.remote,
                out |-> [relevance |-> _calculate_geographic_score(
                                           call.org_state, call.opp_state),
                         relevance_swapped |-> _calculate_geographic_score(
                                           call.opp_state, call.org_state),
                         win |-> geographic_fit(call.org_state, call.opp_state,
                                                call.remote),
                         win_swapped |-> geographic_fit(call.opp_state,
                                                call.org_state, call.remote)]]
    /\ FnFrame

NextGeo == call_geographic_scores

SpecGeo == InitGeo /\ [][NextGeo]_vars

\* C17: the geographic score is symmetric: swapping the organization's state
\* and the place-of-performance state gives the same score, in the relevance
\* scorer and in the win-probability geographic-fit factor (same description)
C17_GeographicSymmetric ==
    (call.fn = "geo" /\ call.done) =>
        /\ call.out.relevance = call.out.relevance_swapped
        /\ call.out.win = call.out.win_swapped

\* ---------------------------------------------------------------------
\* _assess_timeline_risk on its own: every deadline of the horizon, in
\* half days, against two current times half a day apart
\* ---------------------------------------------------------------------
TimelineHorizon == 80

InitTimeline ==
    /\ RestIdle
    /\ call \in [fn : {"timeline"}, done : {FALSE}, now : {Now, Now + 1},
                 response_deadline :
                     {NoDeadline} \cup {Deadline(t) : t \in 0..TimelineHorizon}]

call_assess_timeline_risk ==
    /\ call.fn = "timeline" /\ ~call.done
    /\ call' = [call EXCEPT !.done = TRUE] @@
               [out |-> _assess_timeline_risk(call.response_deadline, call.now)]
    /\ FnFrame

NextTimeline == call_assess_timeline_risk

SpecTimeline == InitTimeline /\ [][NextTimeline]_vars

\* the whole days from now to a deadline that has not passed
WholeDays(at, now) ==
    CHOOSE k \in 0..TimelineHorizon :
        k * HalfDaysPerDay <= at - now /\ at - now < (k + 1) * HalfDaysPerDay

\* C18: the timeline risk of a deadline before the current time is exactly
\* 1.0, critical, with the factor "Response deadline has passed" (whose text
\* includes "deadline has passed"); of a deadline not yet passed it is 0.7
\* under 7 whole days, 0.4 under 14, 0.2 under 30 and 0 from 30 on; without a
\* deadline it is 0.1
C18_TimelineRisk ==
    (call.fn = "timeline" /\ call.done) =>
        LET deadline == call.response_deadline
            out == call.out
        IN  IF ~deadline.present THEN out.score = Dec(1, 10)
            ELSE IF deadline.at < call.now
            THEN /\ out.score = Dec(1, 1)
                 /\ out.level = "critical"
                 /\ "Response deadline has passed" \in out.factors
            ELSE LET days == WholeDays(deadline.at, call.now)
                 IN  out.score = IF days < 7 THEN Dec(7, 10)
                                 ELSE IF days < 14 THEN Dec(4, 10)
                                 ELSE IF days < 30 THEN Dec(2, 10)
                                 ELSE BigZero

\* a deadline half a day before the current time has passed
C18_Witness ==
    /\ call.fn = "timeline" /\ call.done
    /\ call.response_deadline.present
    /\ call.response_deadline.at = call.now - 1
    /\ call.out.score = Dec(1, 1)
    /\ call.out.level = "critical"
    /\ call.out.factors = {"Response deadline has passed"}

\* a field of a component that is a text containing a prohibited-entity key
NamesProhibited(component, field) ==
    /\ field \in DOMAIN component
    /\ component[field] # None
    /\ \E key \in PROHIBITED_ENTITIES : Contains(key, str_lower(component[field]))

\* C19: after a component is added to the components of a supplier, the
\* verdict is prohibited when the name or the manufacturer of the added
\* component contains a prohibited-entity key, and a verdict that was
\* prohibited is not requires_review or compliant afterwards
C19_VerdictMonotonic ==
    (call.fn = "889" /\ call.done) =>
        /\ (NamesProhibited(call.added, "name")
                \/ NamesProhibited(call.added, "manufacturer"))
               => (~call.out.raised /\ call.out.status = "prohibited")
        /\ (~call.before.raised /\ call.before.status = "prohibited")
               => (call.out.raised \/ call.out.status = "prohibited")

\* the supplier name as it is compared: lowered, without outer blanks
Compared(supplier_name) == str_strip(str_lower(supplier_name))

\* a prohibited-entity key within the name or the name within a key, a brand
\* of a prohibited entity within the name, or a key within the name or the
\* manufacturer of a component
Hit(supplier_name, components) ==
    \/ \E key \in PROHIBITED_ENTITIES :
          \/ Contains(key, Compared(supplier_name))
          \/ Contains(Compared(supplier_name), key)
    \/ \E b \in PROHIBITED_BRANDS :
          b.maps_to # requires_review /\ Contains(b.brand, Compared(supplier_name))
    \/ \E i \in 1..Len(components), key \in PROHIBITED_ENTITIES,
          field \in {"name", "manufacturer"} :
          /\ field \in DOMAIN components[i]
          /\ Contains(key, str_lower(components[i][field]))

\* a brand to review or a risk keyword within the name
Indicator(supplier_name) ==
    \/ \E b \in PROHIBITED_BRANDS :
          b.maps_to = requires_review /\ Contains(b.brand, Compared(supplier_name))
    \/ \E kw \in {Kw_telecom, Kw_network, Kw_camera, Kw_surveillance, Kw_security} :
          Contains(kw, Compared(supplier_name))

\* the result of the last call of check_section_889
LastVerdict == IF call.done THEN call.out ELSE call.before

\* C20: a result of check_section_889 is prohibited exactly when there is an
\* entity, brand or component hit, otherwise requires_review exactly when
\* there is a risk indicator, otherwise compliant; so indicators alone never
\* give prohibited and never change a prohibited verdict
C20_Verdict ==
    (call.fn = "889" /\ LastVerdict # NoVerdict /\ ~LastVerdict.raised) =>
        LastVerdict.status =
            IF Hit(call.supplier_name, call.components) THEN "prohibited"
            ELSE IF Indicator(call.supplier_name) THEN "requires_review"
            ELSE "compliant"

\* a supplier with a hit and a risk indicator at once is prohibited
C20_Witness ==
    /\ call.fn = "889" /\ LastVerdict # NoVerdict /\ ~LastVerdict.raised
    /\ Hit(call.supplier_name, call.components)
    /\ Indicator(call.supplier_name)
    /\ LastVerdict.status = "prohibited"
    /\ LastVerdict.risk_indicators # {}

\* no prohibited-entity key, no key of the brand table and no risk keyword
\* within the name as it is compared
NameIsClean(supplier_name) ==
    /\ \A key \in PROHIBITED_ENTITIES : ~Contains(key, Compared(supplier_name))
    /\ \A b \in PROHIBITED_BRANDS : ~Contains(b.brand, Compared(supplier_name))
    /\ \A kw \in {Kw_telecom, Kw_network, Kw_camera, Kw_surveillance, Kw_security} :
          ~Contains(kw, Compared(supplier_name))

UpperChar(c) ==
    IF \E i \in 1..Len(LowerLetters) : LowerLetters[i] = c
    THEN UpperLetters[CHOOSE i \in 1..Len(LowerLetters) : LowerLetters[i] = c]
    ELSE c

str_upper(s) == [i \in 1..Len(s) |-> UpperChar(s[i])]

\* the keys of TAA_DESIGNATED_COUNTRIES; every value is (name, True)
TAA_DESIGNATED_COUNTRIES ==
    {<<"A", "M">>, <<"A", "T">>, <<"A", "U">>, <<"B", "E">>, <<"B", "G">>,
     <<"C", "A">>, <<"H", "R">>, <<"C", "Y">>, <<"C", "Z">>, <<"D", "K">>,
     <<"E", "E">>, <<"F", "I">>, <<"F", "R">>, <<"D", "E">>, <<"G", "R">>,
     <<"H", "K">>, <<"H", "U">>, <<"I", "S">>, <<"I", "E">>, <<"I", "L">>,
     <<"I", "T">>, <<"J", "P">>, <<"K", "R">>, <<"L", "V">>, <<"L", "I">>,
     <<"L", "T">>, <<"L", "U">>, <<"M", "T">>, <<"M", "D">>, <<"M", "E">>,
     <<"N", "L">>, <<"N", "Z">>, <<"M", "K">>, <<"N", "O">>, <<"P", "L">>,
     <<"P", "T">>, <<"R", "O">>, <<"S", "G">>, <<"S", "K">>, <<"S", "I">>,
     <<"E", "S">>, <<"S", "E">>, <<"C", "H">>, <<"T", "W">>, <<"U", "A">>,
     <<"G", "B">>, <<"U", "S">>, <<"A", "G">>, <<"A", "W">>, <<"B", "S">>,
     <<"B", "B">>, <<"B", "Z">>, <<"V", "G">>, <<"C", "W">>, <<"D", "M">>,
     <<"G", "D">>, <<"G", "Y">>, <<"H", "T">>, <<"J", "M">>, <<"M", "S">>,
     <<"K", "N">>, <<"L", "C">>, <<"V", "C">>, <<"T", "T">>, <<"B", "H">>,
     <<"C", "L">>, <<"C", "O">>, <<"C", "R">>, <<"D", "O">>, <<"S", "V">>,
     <<"G", "T">>, <<"H", "N">>, <<"J", "O">>, <<"M", "X">>, <<"M", "A">>,
     <<"N", "I">>, <<"O", "M">>, <<"P", "A">>, <<"P", "E">>}

\* the keys of NON_TAA_COUNTRIES; every value is (name, False)
NON_TAA_COUNTRIES ==
    {<<"C", "N">>, <<"R", "U">>, <<"I", "N">>, <<"M", "Y">>, <<"T", "H">>,
     <<"V", "N">>, <<"I", "D">>, <<"B", "D">>, <<"P", "K">>, <<"P", "H">>,
     <<"B", "R">>, <<"A", "R">>, <<"Z", "A">>, <<"E", "G">>, <<"S", "A">>,
     <<"A", "E">>, <<"I", "R">>, <<"K", "P">>, <<"B", "Y">>, <<"C", "U">>,
     <<"S", "Y">>, <<"V", "E">>}

\* {**TAA_DESIGNATED_COUNTRIES, **NON_TAA_COUNTRIES}: code -> is_designated,
\* the later table winning
all_countries ==
    [code \in TAA_DESIGNATED_COUNTRIES \cup NON_TAA_COUNTRIES |->
        code \notin NON_TAA_COUNTRIES]

\* the sanctioned countries without Russia
sanctioned_countries_without_RU ==
    {<<"K", "P">>, <<"I", "R">>, <<"C", "U">>, <<"S", "Y">>, <<"B", "Y">>}

sanctioned_countries ==
    {<<"K", "P">>, <<"I", "R">>, <<"C", "U">>, <<"S", "Y">>, <<"B", "Y">>,
     <<"R", "U">>}

check_taa_compliance(country_code_in) ==
    LET country_code == str_strip(str_upper(country_code_in))
    IN  IF country_code \notin DOMAIN all_countries
        THEN [country_code |-> country_code, status |-> "unknown",
              is_designated_country |-> FALSE, is_prohibited |-> FALSE]
        ELSE LET is_designated == all_countries[country_code]
                 is_prohibited == country_code \in sanctioned_countries
             IN  [country_code |-> country_code,
                  status |-> IF is_prohibited THEN "prohibited"
                             ELSE IF is_designated THEN "compliant"
                             ELSE "non_compliant",
                  is_designated_country |-> is_designated,
                  is_prohibited |-> is_prohibited]

MaxCodeLen == 3

CodeChars == {"u", "s", "U", "S", "k", "p", "R", "C", "N", " "}

\* every code of the two tables, and the short texts over CodeChars
CountryCodes ==
    TAA_DESIGNATED_COUNTRIES \cup NON_TAA_COUNTRIES \cup
        UNION {[1..n -> CodeChars] : n \in 0..MaxCodeLen}

InitTaa ==
    /\ RestIdle
    /\ call \in [fn : {"taa"}, done : {FALSE}, country_code : CountryCodes]

call_check_taa_compliance ==
    /\ call.fn = "taa" /\ ~call.done
    /\ call' = [call EXCEPT !.done = TRUE] @@
               [out |-> check_taa_compliance(call.country_code)]
    /\ FnFrame

NextTaa == call_check_taa_compliance

SpecTaa == InitTaa /\ [][NextTaa]_vars

\* the code looked up: without outer blanks, in capitals
LookedUp(country_code) == str_upper(str_strip(country_code))

\* C22: check_taa_compliance gives prohibited for KP, IR, CU, SY, BY and RU,
\* else compliant for a designated country, else non_compliant for a country
\* of the non-designated table, else unknown, on the code in capitals without
\* outer blanks; is_prohibited says the status is prohibited and
\* is_designated_country says it is compliant
C22_TaaStatus ==
    (call.fn = "taa" /\ call.done) =>
        LET code == LookedUp(call.country_code)
            out == call.out
        IN  /\ out.status =
                   IF code \in {<<"K", "P">>, <<"I", "R">>, <<"C", "U">>,
                                <<"S", "Y">>, <<"B", "Y">>, <<"R", "U">>}
                   THEN "prohibited"
                   ELSE IF code \in TAA_DESIGNATED_COUNTRIES THEN "compliant"
                   ELSE IF code \in NON_TAA_COUNTRIES THEN "non_compliant"
                   ELSE "unknown"
            /\ out.is_prohibited <=> (out.status = "prohibited")
            /\ out.is_designated_country <=> (out.status = "compliant")

\* " kp" is North Korea: prohibited, not designated
C22_Witness ==
    /\ call.fn = "taa" /\ call.done
    /\ call.country_code = <<" ", "k", "p">>
    /\ call.out.status = "prohibited"
    /\ call.out.is_prohibited /\ ~call.out.is_designated_country

\* the band of a score: < 0.25 low, < 0.50 medium, < 0.80 high, else critical
SupplierBand(score) ==
    IF Less(score, Dec(25, 100)) THEN "low"
    ELSE IF Less(score, Dec(50, 100)) THEN "medium"
    ELSE IF Less(score, Dec(80, 100)) THEN "high"
    ELSE "critical"

\* the recommendations that start with "DO NOT PROCEED"
DoNotProceed ==
    {"DO NOT PROCEED with this supplier - Section 889 violation",
     "DO NOT PROCEED - Sanctioned country of origin"}

\* C23: in every SupplierVerification the risk level is the band of the
\* returned overall risk score, and when the Section-889 verdict or the TAA
\* verdict is prohibited the score is 1.0, the level critical and a
\* recommendation starts with "DO NOT PROCEED"
C23_SupplierRisk ==
    (call.fn = "supplier" /\ call.done /\ ~call.out.raised) =>
        LET out == call.out
        IN  /\ out.risk_level = SupplierBand(out.overall_risk_score)
            /\ (out.section_889_result.status = "prohibited" \/ call.taa = "prohibited")
                   => /\ out.overall_risk_score = Dec(1, 1)
                      /\ out.risk_level = "critical"
                      /\ \E i \in 1..Len(out.recommendations) :
                            out.recommendations[i] \in DoNotProceed

\* a compliant supplier from a sanctioned country
C23_Witness ==
    /\ call.fn = "supplier" /\ call.done /\ ~call.out.raised
    /\ call.out.section_889_result.status = "compliant"
    /\ call.taa = "prohibited"
    /\ call.out.overall_risk_score = Dec(1, 1)
    /\ call.out.risk_level = "critical"
    /\ call.out.recommendations = <<"DO NOT PROCEED - Sanctioned country of origin">>

(***************************************************************************)
(* services/pricing_intelligence.py: get_pricing_recommendation.  Amounts  *)
(* of money are Decimals, held in cents.                                   *)
(***************************************************************************)
\* the fields of the dataclass ContractValueBenchmark, and those without a
\* default
ContractValueBenchmark_fields ==
    {"naics_code", "psc_code", "min_value", "max_value", "median_value",
     "average_value", "sample_size", "period"}

ContractValueBenchmark_required == ContractValueBenchmark_fields \ {"period"}

\* ContractValueBenchmark(**kwargs) raises TypeError on a keyword that is not
\* a field and on a missing field without a default
ContractValueBenchmark_raises(kwargs) ==
    \/ ~(DOMAIN kwargs \subseteq ContractValueBenchmark_fields)
    \/ ~(ContractValueBenchmark_required \subseteq DOMAIN kwargs)

\* the keyword arguments of the entries of NAICS_BENCHMARKS in the order of
\* the dictionary, values in dollars
NAICS_BENCHMARKS ==
    <<[naics_code |-> <<"5", "4", "1", "5", "1", "1">>, psc_code |-> <<"D", "3", "0", "2">>,
       min_value |-> 100000, max_value |-> 50000000, median_value |-> 2500000,
       average_value |-> 5200000, sample_size |-> 2500],
      [naics_code |-> <<"5", "4", "1", "5", "1", "2">>, psc_code |-> <<"D", "3", "0", "6">>,
       min_value |-> 150000, max_value |-> 75000000, median_value |-> 3500000,
       average_value |-> 7800000, sample_size |-> 1800],
      [naics_code |-> <<"5", "4", "1", "5", "1", "9">>, psc_code |-> <<"D", "3", "9", "9">>,
       min_value |-> 75000, max_value |-> 25000000, median_value |-> 1800000,
       average_rate |-> 3200000, sample_size |-> 1200],
      [naics_code |-> <<"5", "4", "1", "3", "3", "0">>, psc_code |-> <<"C", "2", "1", "1">>,
       min_value |-> 200000, max_value |-> 100000000, median_value |-> 5000000,
       average_value |-> 12500000, sample_size |-> 900],
      [naics_code |-> <<"5", "6", "1", "2", "1", "0">>, psc_code |-> <<"R", "6", "9", "9">>,
       min_value |-> 50000, max_value |-> 15000000, median_value |-> 850000,
       average_value |-> 1800000, sample_size |-> 1500]>>

\* the class body of PricingIntelligenceService runs when the module is
\* imported; it builds every entry of NAICS_BENCHMARKS
PricingIntelligenceService_defined ==
    \A i \in 1..Len(NAICS_BENCHMARKS) : ~ContractValueBenchmark_raises(NAICS_BENCHMARKS[i])

\* the import of services/pricing_intelligence.py raised TypeError
RaisedOnImport == [raised |-> TRUE, at |-> "import"]

NoBenchmark == [naics_code |-> <<>>, median_value |-> 0, sample_size |-> 0]

\* an operation that raised TypeError or AttributeError on None
RaisedOnNone == [raised |-> TRUE, at |-> "call"]

\* _get_naics_benchmark: [raised, benchmark]; None[:4] raises TypeError
_get_naics_benchmark(naics_code) ==
    IF \E i \in 1..Len(NAICS_BENCHMARKS) : NAICS_BENCHMARKS[i].naics_code = naics_code
    THEN [raised |-> FALSE,
          benchmark |-> NAICS_BENCHMARKS[CHOOSE i \in 1..Len(NAICS_BENCHMARKS) :
                                             NAICS_BENCHMARKS[i].naics_code = naics_code]]
    ELSE IF naics_code = None THEN RaisedOnNone
    ELSE LET hits == {i \in 1..Len(NAICS_BENCHMARKS) :
                         StartsWith(NAICS_BENCHMARKS[i].naics_code, Prefix(naics_code, 4))}
         IN  [raised |-> FALSE,
              benchmark |-> IF hits = {} THEN NoBenchmark
                            ELSE NAICS_BENCHMARKS[CHOOSE i \in hits :
                                                      \A j \in hits : i <= j]]

\* (description or "").lower()
description_lower(description) ==
    IF description = None THEN <<>> ELSE str_lower(description)

\* _get_relevant_labor_rates: the keys of the benchmarks chosen, in order
_get_relevant_labor_rates(opportunity) ==
    LET naics_code == opportunity.naics_code
        description == description_lower(opportunity.description)
        relevant ==
            IF StartsWith(naics_code, <<"5", "4", "1", "5">>)
            THEN <<"program_manager", "project_manager", "senior_engineer",
                   "engineer", "analyst">> \o
                 (IF Contains(Kw_security, description) \/ Contains(<<"c", "y", "b", "e", "r">>, description)
                  THEN <<"security_engineer">> ELSE <<>>) \o
                 (IF Contains(<<"d", "a", "t", "a">>, description) \/ Contains(<<"a", "n", "a", "l", "y", "t", "i", "c", "s">>, description)
                  THEN <<"data_scientist">> ELSE <<>>) \o
                 (IF \/ Contains(<<"c", "l", "o", "u", "d">>, description)
                     \/ Contains(<<"a", "w", "s">>, description)
                     \/ Contains(<<"a", "z", "u", "r", "e">>, description)
                  THEN <<"cloud_architect">> ELSE <<>>)
            ELSE IF StartsWith(naics_code, <<"5", "4", "1", "6">>) \/ StartsWith(naics_code, <<"5", "4", "1", "2">>)
            THEN <<"consultant_senior", "consultant", "subject_matter_expert",
                   "project_manager">>
            ELSE <<>>
    IN  IF relevant = <<>> THEN <<"project_manager", "consultant", "analyst">>
        ELSE relevant

\* no estimated_value_max: None
NoValue == 0 - 1

\* `if estimated_max:` is false for None and for Decimal 0
IsTruthyValue(v) == v # NoValue /\ v # 0

\* _calculate_recommended_price, in cents; estimated_max in dollars
_calculate_recommended_price(benchmark, estimated_max) ==
    IF IsTruthyValue(estimated_max)
    THEN <<estimated_max * 85, estimated_max * 100>>
    ELSE IF benchmark # NoBenchmark
    THEN <<benchmark.median_value * 80, benchmark.median_value * 120>>
    ELSE <<25000000, 250000000>>

\* _determine_competitive_position: ratio = ((rec_min + rec_max) / 2) / gov_estimate
_determine_competitive_position(rec_min, rec_max, gov_estimate) ==
    IF IsTruthyValue(gov_estimate)
    THEN IF rec_min + rec_max < 170 * gov_estimate THEN "aggressive"
         ELSE IF rec_min + rec_max < 190 * gov_estimate THEN "competitive"
         ELSE "premium"
    ELSE "competitive"

\* a labor mix: None, or a dictionary of FTE counts
NoLaborMix == [present |-> FALSE, fte |-> <<>>]

LaborMix(fte) == [present |-> TRUE, fte |-> fte]

\* `if labor_mix:` is false for None and for the empty dictionary
IsTruthyMix(labor_mix) == labor_mix.present /\ DOMAIN labor_mix.fte # {}

\* _calculate_confidence of the pricing service
pricing_calculate_confidence(benchmark, labor_mix) ==
    FMin(Dec(95, 100),
         FSum(<<Dec(5, 10)>> \o
              (IF benchmark # NoBenchmark
               THEN <<Dec(2, 10)>> \o
                    (IF benchmark.sample_size > 1000 THEN <<Dec(1, 10)>> ELSE <<>>)
               ELSE <<>>) \o
              (IF IsTruthyMix(labor_mix) THEN <<Dec(15, 100)>> ELSE <<>>)))

\* _generate_pricing_notes: [raised, notes]; None.lower() raises AttributeError
_generate_pricing_notes(benchmark, gov_estimate, position, opportunity) ==
    IF opportunity.contract_type = None THEN RaisedOnNone
    ELSE LET contract_type == str_lower(opportunity.contract_type)
         IN  [raised |-> FALSE,
              notes |->
                  (IF IsTruthyValue(gov_estimate) THEN <<"Government estimate">>
                   ELSE <<"No government estimate available - use benchmark data">>) \o
                  (IF benchmark # NoBenchmark THEN <<"NAICS median award">> ELSE <<>>) \o
                  (IF opportunity.set_aside_type \notin {None, <<>>}
                   THEN <<"Set-aside">> ELSE <<>>) \o
                  (IF Contains(<<"f", "f", "p">>, contract_type) \/ Contains(<<"f", "i", "r", "m", " ", "f", "i", "x", "e", "d">>, contract_type)
                   THEN <<"Firm Fixed Price - ensure all costs are captured in pricing">>
                   ELSE IF \/ Contains(<<"t", "&", "m">>, contract_type)
                           \/ Contains(<<"t", "i", "m", "e", " ", "a", "n", "d", " ", "m", "a", "t", "e", "r", "i", "a", "l">>, contract_type)
                   THEN <<"T&M contract - focus on competitive labor rates">>
                   ELSE <<>>) \o
                  <<"Competitive position">>]

get_pricing_recommendation(opportunity, labor_mix) ==
    LET found == _get_naics_benchmark(opportunity.naics_code)
    IN  IF ~PricingIntelligenceService_defined THEN RaisedOnImport
        ELSE IF found.raised THEN RaisedOnNone
        ELSE LET naics_benchmark == found.benchmark
                 estimated_max == opportunity.estimated_value_max
                 relevant_labor_rates == _get_relevant_labor_rates(opportunity)
                 recommended ==
                     _calculate_recommended_price(naics_benchmark, estimated_max)
                 competitive_position ==
                     _determine_competitive_position(
                         recommended[1], recommended[2], estimated_max)
                 noted == _generate_pricing_notes(
                              naics_benchmark, estimated_max, competitive_position,
                              opportunity)
             IN  IF noted.raised THEN RaisedOnNone
                 ELSE [raised |-> FALSE,
                       recommended_price_min |-> recommended[1],
                       recommended_price_max |-> recommended[2],
                       competitive_position |-> competitive_position,
                       confidence |->
                           pricing_calculate_confidence(naics_benchmark, labor_mix),
                       labor_rates |-> relevant_labor_rates,
                       benchmark |-> naics_benchmark,
                       notes |-> noted.notes]

\* the opportunities priced: each optional column either filled or null
PricedOpportunities ==
    [naics_code : {None, N541512, N541611, N541990, <<"5", "4", "1", "3", "9", "9">>},
     estimated_value_max : {NoValue, 0, 1000000},
     description : {None, <<"C", "l", "o", "u", "d", " ", "s", "e", "c", "u", "r", "i", "t", "y">>},
     set_aside_type : {None, <<"S", "B">>},
     contract_type : {None, <<"F", "F", "P">>, <<"T", "&", "M">>}]

InitPricing ==
    /\ RestIdle
    /\ call \in [fn : {"pricing"}, done : {FALSE}, opportunity : PricedOpportunities,
                 labor_mix : {NoLaborMix, LaborMix(<<>>), LaborMix([engineer |-> 2])}]

call_get_pricing_recommendation ==
    /\ call.fn = "pricing" /\ ~call.done
    /\ call' = [call EXCEPT !.done = TRUE] @@
               [out |-> get_pricing_recommendation(call.opportunity, call.labor_mix)]
    /\ FnFrame

NextPricing == call_get_pricing_recommendation

SpecPricing == InitPricing /\ [][NextPricing]_vars

\* C24: a scoring component returns a result whichever optional fields are
\* null; here the pricing recommendation, for opportunities with any of the
\* NAICS code, estimated value, description, set-aside and contract type null
C24_PricingReturns ==
    (call.fn = "pricing" /\ call.done) => ~call.out.raised

(***************************************************************************)
(* calculate_should_cost.  Decimals are whole numbers of ten-thousandths   *)
(* of a dollar.  The overhead rate is given in quarters, so the float      *)
(* overhead_rate - 1 is exact and str() prints it in full; the margin is   *)
(* given in hundredths, which str() prints as written.                     *)
(***************************************************************************)
\* median_rate of LABOR_RATE_BENCHMARKS, in dollars
LABOR_RATE_BENCHMARKS ==
    [program_manager |-> 175, project_manager |-> 135, senior_engineer |-> 155,
     engineer |-> 110, junior_engineer |-> 72, senior_analyst |-> 125,
     analyst |-> 92, security_engineer |-> 160, data_scientist |-> 150,
     cloud_architect |-> 180, consultant_senior |-> 165, consultant |-> 110,
     subject_matter_expert |-> 200, admin_assistant |-> 48,
     executive_assistant |-> 70]

hours_per_month == 173

\* Decimal of a whole number of dollars
Money(dollars) == MulSmall(Small(dollars), 10000)

\* the sum of the category costs over the categories of the mix in order
RECURSIVE total_direct_labor(_, _, _)
total_direct_labor(labor_mix, categories, duration_months) ==
    IF categories = <<>> THEN BigZero
    ELSE LET category == categories[Len(categories)]
             before == total_direct_labor(
                           labor_mix, SubSeq(categories, 1, Len(categories) - 1),
                           duration_months)
         IN  IF category \in DOMAIN LABOR_RATE_BENCHMARKS
             THEN BigAdd(before,
                         MulSmall(MulSmall(Money(LABOR_RATE_BENCHMARKS[category]),
                                           hours_per_month * duration_months),
                                  labor_mix[category]))
             ELSE before

\* a mix as the sequence of its items
ItemsOf(labor_mix) ==
    CHOOSE s \in [1..Cardinality(DOMAIN labor_mix) -> DOMAIN labor_mix] :
        \A c \in DOMAIN labor_mix : \E i \in DOMAIN s : s[i] = c

\* overhead_quarters / 4 is overhead_rate, margin_hundredths / 100 is
\* profit_margin
calculate_should_cost(labor_mix, duration_months, overhead_quarters, margin_hundredths) ==
    IF ~PricingIntelligenceService_defined THEN RaisedOnImport
    ELSE LET direct == total_direct_labor(labor_mix, ItemsOf(labor_mix), duration_months)
             overhead_cost == DivSmall(MulSmall(direct, overhead_quarters - 4), 4)
             subtotal == BigAdd(direct, overhead_cost)
             profit == DivSmall(MulSmall(subtotal, margin_hundredths), 100)
         IN  [raised |-> FALSE, direct_labor |-> direct,
              overhead_cost |-> overhead_cost, subtotal |-> subtotal,
              profit |-> profit, total_price |-> BigAdd(subtotal, profit)]

MaxFte == 2

Categories == {"engineer", "analyst", "astronaut"}

LaborMixes == UNION {[cs -> 0..MaxFte] : cs \in SUBSET Categories}

InitShouldCost ==
    /\ RestIdle
    /\ call \in [fn : {"should_cost"}, done : {FALSE}, labor_mix : LaborMixes,
                 duration_months : {1, 12}, overhead_quarters : {4, 6, 8},
                 margin_hundredths : {0, 8, 10}]

call_calculate_should_cost ==
    /\ call.fn = "should_cost" /\ ~call.done
    /\ call' = [call EXCEPT !.done = TRUE] @@
               [out |-> calculate_should_cost(call.labor_mix, call.duration_months,
                                              call.overhead_quarters,
                                              call.margin_hundredths)]
    /\ FnFrame

NextShouldCost == call_calculate_should_cost

SpecShouldCost == InitShouldCost /\ [][NextShouldCost]_vars

\* median_rate x 173 x months x fte summed over the known categories of a mix
RECURSIVE DirectOf(_, _, _)
DirectOf(labor_mix, known, months) ==
    IF known = {} THEN BigZero
    ELSE LET c == CHOOSE x \in known : TRUE
         IN  BigAdd(MulSmall(Money(LABOR_RATE_BENCHMARKS[c] * labor_mix[c]),
                             173 * months),
                    DirectOf(labor_mix, known \ {c}, months))

\* C25: calculate_should_cost returns direct = the sum over the known
\* categories of median_rate x 173 x months x fte, overhead = direct x
\* (overhead_rate - 1), subtotal = direct + overhead, profit = subtotal x
\* margin and total = subtotal + profit, exactly; for {engineer: 2}, 12
\* months, overhead 1.5 and margin 0.10 they are 456,720 / 228,360 /
\* 685,080 / 68,508 / 753,588
C25_ShouldCost ==
    (call.fn = "should_cost" /\ call.done) =>
        LET out == call.out
            direct == DirectOf(call.labor_mix,
                               DOMAIN call.labor_mix \cap DOMAIN LABOR_RATE_BENCHMARKS,
                               call.duration_months)
        IN  /\ ~out.raised
            /\ out.direct_labor = direct
            /\ MulSmall(out.overhead_cost, 4) = MulSmall(direct, call.overhead_quarters - 4)
            /\ out.subtotal = BigAdd(direct, out.overhead_cost)
            /\ MulSmall(out.profit, 100) = MulSmall(out.subtotal, call.margin_hundredths)
            /\ out.total_price = BigAdd(out.subtotal, out.profit)
            /\ (/\ call.labor_mix = [engineer |-> 2] /\ call.duration_months = 12
                /\ call.overhead_quarters = 6 /\ call.margin_hundredths = 10)
                   => /\ out.direct_labor = Money(456720)
                      /\ out.overhead_cost = Money(228360)
                      /\ out.subtotal = Money(685080)
                      /\ out.profit = Money(68508)
                      /\ out.total_price = Money(753588)

(***************************************************************************)
(* api/scoring.py, calculate_batch_scores: the items of the response.      *)
(***************************************************************************)
MaxItems == 4

\* overall scores stand in the order of these numbers
ScoreLevels == 0..2

\* the scores list after the loop: the n-th item is the n-th opportunity scored
ScoresLists ==
    UNION {[1..n -> [overall_score : ScoreLevels]] : n \in 0..MaxItems}

\* where an item goes that is put before the items it ties with
reverse_insertion_point_before_ties(items, x) ==
    Cardinality({i \in 1..Len(items) : items[i].overall_score > x.overall_score})

\* where the next item goes among the items already sorted: after every item
\* whose key is not smaller (the sort is stable, also with reverse=True)
reverse_insertion_point(items, x) ==
    Cardinality({i \in 1..Len(items) : items[i].overall_score >= x.overall_score})

\* sorted(scores, key=lambda x: x.overall_score, reverse=True); each item keeps
\* the place at which it was scored
RECURSIVE sorted_reverse(_)
sorted_reverse(scores) ==
    IF scores = <<>> THEN <<>>
    ELSE LET n == Len(scores)
             x == [overall_score |-> scores[n].overall_score, scored |-> n]
             items == sorted_reverse(SubSeq(scores, 1, n - 1))
             at == reverse_insertion_point(items, x)
         IN  SubSeq(items, 1, at) \o <<x>> \o SubSeq(items, at + 1, Len(items))

InitBatchItems ==
    /\ RestIdle
    /\ call \in [fn : {"batch_items"}, done : {FALSE}, scores : ScoresLists]

call_batch_items ==
    /\ call.fn = "batch_items" /\ ~call.done
    /\ call' = [call EXCEPT !.done = TRUE] @@ [items |-> sorted_reverse(call.scores)]
    /\ FnFrame

NextBatchItems == call_batch_items

SpecBatchItems == InitBatchItems /\ [][NextBatchItems]_vars

\* C26: the items of a batch response are the scores of the batch, by overall
\* score descending, items of equal overall score in the order in which they
\* were scored
C26_ItemsOrdered ==
    (call.fn = "batch_items" /\ call.done) =>
        LET items == call.items
        IN  /\ Len(items) = Len(call.scores)
            /\ {items[i].scored : i \in 1..Len(items)} = 1..Len(call.scores)
            /\ \A i \in 1..Len(items) :
                  items[i].overall_score = call.scores[items[i].scored].overall_score
            /\ \A i, j \in 1..Len(items) :
                  i < j => \/ items[i].overall_score > items[j].overall_score
                           \/ /\ items[i].overall_score = items[j].overall_score
                              /\ items[i].scored < items[j].scored

\* three scores, the second the largest and the first and third equal
C26_Witness ==
    /\ call.fn = "batch_items" /\ call.done
    /\ Len(call.scores) = 3
    /\ call.scores[1].overall_score = 1 /\ call.scores[2].overall_score = 2
    /\ call.scores[3].overall_score = 1
    /\ call.items = <<[overall_score |-> 2, scored |-> 2],
                      [overall_score |-> 1, scored |-> 1],
                      [overall_score |-> 1, scored |-> 3]>>

(***************************************************************************)
(* Requests that are cancelled or fail before their commit (get_db).       *)
(***************************************************************************)
\* a variant of the session's exit that writes the pending rows
session_close_commits(rows, dirty, new, first, r) ==
    Flush(rows, dirty, new, first, r)

\* get_db (database/connection.py): `except Exception: await
\* session.rollback()` and `finally: await session.close()`; autoflush is off,
\* the pending inserts and updates of the session never reach the table
session_close(rows, dirty, new, first, r) == rows

\* how a request ends before its commit: asyncio.CancelledError passes
\* `except Exception` and the session is closed by `finally` and by the exit
\* of `async with`; any other exception is rolled back and answered with 500
Aborts == {"cancelled", "failed"}

\* the request is cancelled or raises at one of its awaits after the
\* organization was found and before db.commit()
request_aborted(r, how) ==
    /\ req[r].pc \in {"get_opp", "select_existing", "commit"}
    /\ LET q == req[r]
           t == session_close(Table(q.kind), q.dirty, q.new, nextId, r)
       IN  /\ IF q.kind = "assess"
              THEN /\ risk_assessments' = t
                   /\ UNCHANGED relevance_scores
              ELSE /\ relevance_scores' = t
                   /\ UNCHANGED risk_assessments
           /\ req' = [req EXCEPT ![r].pc = how,
                                 ![r].resp = IF how = "failed" THEN 500 ELSE 0,
                                 ![r].wrote = {x.opportunity_id :
                                                 x \in t \ Table(q.kind)},
                                 ![r].new = {}, ![r].dirty = {}]
    /\ UNCHANGED <<organizations, commitOrder, nextId>>

NextAborting ==
    \/ \E r \in ReqIds :
          \E kind \in Kinds : \E org \in ReqOrgIds : \E opps \in OppIdLists(kind, org) :
             get_organization(r, kind, org, opps) /\ UNCHANGED nextId /\ ScoringFrame
    \/ \E r \in ReqIds : get_opportunity(r) /\ UNCHANGED nextId /\ ScoringFrame
    \/ \E r \in ReqIds : get_opportunities(r) /\ UNCHANGED nextId /\ ScoringFrame
    \/ \E r \in ReqIds : select_existing(r) /\ UNCHANGED nextId /\ ScoringFrame
    \/ \E r \in ReqIds : commit(r) /\ ScoringFrame
    \/ \E r \in ReqIds : \E how \in Aborts : request_aborted(r, how) /\ ScoringFrame

SpecAborting == InitScoring /\ [][NextAborting]_vars

\* a request that did not end with a successful commit
Uncommitted(r) ==
    \/ req[r].pc \in Aborts
    \/ req[r].pc = "done" /\ req[r].resp # 200

\* C27: a scoring or risk-assessment request that was cancelled or failed
\* before its commit (or whose commit failed) has inserted no row and changed
\* no row of relevance_scores or risk_assessments: no row of either table was
\* last written by it, and it wrote for none of its opportunities
C27_AbortedWritesNothing ==
    \A r \in ReqIds :
        Uncommitted(r) =>
            /\ req[r].wrote = {}
            /\ req[r].new = {} /\ req[r].dirty = {}
            /\ \A x \in relevance_scores \cup risk_assessments : x.by # r

\* a request that had read its opportunity is cancelled while the row of its
\* organization and opportunity, committed by an earlier request, is stored
C27_Witness ==
    \E r \in ReqIds :
        /\ req[r].pc = "cancelled"
        /\ req[r].set_aside # ""
        /\ req[r].pre # {}
        /\ \E x \in Table(req[r].kind) :
              x.organization_id = req[r].org
              /\ x.opportunity_id = req[r].opps[1] /\ x.by # r

(***************************************************************************)
(* The life of an ingestion job, and its end under fair scheduling.        *)
(***************************************************************************)
\* one step of the background task of job j once it has started: the event
\* loop resumes the coroutine after each await until it returns
TaskStep(j) ==
    \/ \E n \in 0..MaxBatch : fetch_returns(j, n) /\ IngestFrame
    \/ fetch_raises(j) /\ IngestFrame
    \/ \E rec \in Records : store_opportunity(j, rec) /\ IngestFrame
    \/ ingest_commit(j) /\ IngestFrame
    \/ run_completed(j) /\ IngestFrame
    \/ run_failed(j) /\ IngestFrame

\* the jobs of SpecIngest with a started background task that is not
\* abandoned: every await of the task returns or raises
SpecIngestFair ==
    InitIngest /\ [][NextIngest]_vars /\ \A j \in JobIds : WF_vars(TaskStep(j))

JobStatuses == {"queued", "running", "completed", "failed"}

\* the moves of a job's status: the log row is created queued, the task sets
\* running, and the end is completed or failed; queued -> failed is the
\* branch of trigger_ingestion for a source that is not sam_gov
StatusMove(j) ==
    \/ log[j].status = "none" /\ log'[j].status = "queued"
    \/ log[j].status = "queued" /\ log'[j].status = "running"
    \/ log[j].status = "running" /\ log'[j].status \in {"completed", "failed"}
    \/ /\ log[j].status = "queued" /\ log'[j].status = "failed"
       /\ job[j].pc = "unsupported"

Ended(j) == log[j].status \in {"completed", "failed"} /\ log[j].completed_at

SizeEligible == eOut.size # 20

\* the risk assessor decides not eligible when it adds the 0.8 of the
\* set-aside rule (risk_assessor.py lines 162-183)
RiskEligible == ~ eOut.riskInel

\* the win-probability factor is 1.0 for an eligible organization and 0.6
\* without a set-aside; 0.1, 0.3 and 0.5 are the factors of an organization
\* that was not found eligible
WinEligible == eOut.win \in {100, 60}

\* C29: for every set of certifications and every required set-aside the
\* size rule, the eligibility-risk rule and the win factor reach one
\* decision, and it is that of is_eligible_for_set_aside
C29_EnginesAgreeWithLattice ==
    eOut.done =>
        /\ SizeEligible = is_eligible_for_set_aside(eOrg, eOpp)
        /\ RiskEligible = is_eligible_for_set_aside(eOrg, eOpp)
        /\ WinEligible = is_eligible_for_set_aside(eOrg, eOpp)

(***************************************************************************)
(* services/risk_assessor.py: _generate_mitigations.  A factor is the set  *)
(* of the searched words that factor.lower() contains; a score is in       *)
(* hundredths.                                                             *)
(***************************************************************************)
\* the largest number of factors of one risk category
MaxFactors == 2

\* the categories in the order of the six blocks, lines 473-519
MitigationCategories ==
    <<"eligibility", "technical", "pricing", "resource", "compliance", "timeline">>

\* the score from which a category's factors are read: lines 474, 484, 492,
\* 500, 509 and 517
mitigation_threshold ==
    [eligibility |-> 50, technical |-> 40, pricing |-> 40,
     resource |-> 40, compliance |-> 30, timeline |-> 50]

\* the words searched in the factors of each category
mitigation_words ==
    [eligibility |-> {"set-aside", "clearance", "uei"},
     technical   |-> {"naics", "capabilities"},
     pricing     |-> {"capacity", "revenue", "accounting"},
     resource    |-> {"staff", "performance in"},
     compliance  |-> {"dfars", "hipaa", "itar"},
     timeline    |-> {"urgent", "tight"}]

When(found, texts) == IF found THEN texts ELSE <<>>

\* the mitigations one factor appends, lines 475-522
factor_mitigations(category, factor) ==
    CASE category = "eligibility" ->
           When("set-aside" \in factor,
                <<"Consider teaming with an eligible prime contractor">>)
           \o When("clearance" \in factor,
                <<"Initiate facility clearance process if not already in progress">>)
           \o When("uei" \in factor,
                <<"Complete SAM.gov registration immediately">>)
      [] category = "technical" ->
           When("naics" \in factor,
                <<"Document relevant past performance in adjacent NAICS codes">>)
           \o When("capabilities" \in factor,
                <<"Update capability statement before submission">>)
      [] category = "pricing" ->
           When("capacity" \in factor \/ "revenue" \in factor,
                <<"Consider teaming or subcontracting to share risk">>)
           \o When("accounting" \in factor,
                <<"Verify DCAA-compliant accounting system is in place">>)
      [] category = "resource" ->
           When("staff" \in factor,
                <<"Identify key personnel and confirm availability",
                  "Develop recruitment pipeline for required positions">>)
           \o When("performance in" \in factor,
                <<"Consider local subcontractor or satellite office">>)
      [] category = "compliance" ->
           When("dfars" \in factor,
                <<"Review DFARS flowdown requirements with contracts team">>)
           \o When("hipaa" \in factor \/ "itar" \in factor,
                <<"Engage compliance officer for regulatory review">>)
      [] category = "timeline" ->
           When("urgent" \in factor \/ "tight" \in factor,
                <<"Assign dedicated proposal team immediately",
                  "Request extension if allowable under solicitation">>)

\* `for factor in <category>.factors`
RECURSIVE factors_mitigations(_, _)
factors_mitigations(category, factors) ==
    IF factors = <<>> THEN <<>>
    ELSE factor_mitigations(category, Head(factors))
         \o factors_mitigations(category, Tail(factors))

\* the list `mitigations` after the blocks of the first n categories
RECURSIVE appended_mitigations(_, _)
appended_mitigations(risks, n) ==
    IF n = 0 THEN <<>>
    ELSE LET category == MitigationCategories[n]
         IN  appended_mitigations(risks, n - 1)
             \o When(risks[category].score >= mitigation_threshold[category],
                     factors_mitigations(category, risks[category].factors))

\* a variant of the test that finds nothing seen
seen_contains_nothing(unique_mitigations, m) == FALSE

\* `m not in seen` is false: seen holds the entries of unique_mitigations
seen_contains(unique_mitigations, m) ==
    \E i \in 1..Len(unique_mitigations) : unique_mitigations[i] = m

\* lines 524-529: unique_mitigations after the loop over mitigations
RECURSIVE remove_duplicates(_)
remove_duplicates(mitigations) ==
    IF mitigations = <<>> THEN <<>>
    ELSE LET n == Len(mitigations)
             unique_mitigations == remove_duplicates(SubSeq(mitigations, 1, n - 1))
         IN  IF seen_contains(unique_mitigations, mitigations[n])
             THEN unique_mitigations
             ELSE Append(unique_mitigations, mitigations[n])

\* lines 461-531; risks holds the six categories by name
_generate_mitigations(risks) ==
    LET unique_mitigations ==
            remove_duplicates(appended_mitigations(risks, Len(MitigationCategories)))
    IN  SubSeq(unique_mitigations, 1, Min(10, Len(unique_mitigations)))

\* a score below every threshold but that of compliance, and one above all
MitigationScores == {30, 50}

\* the factor lists of one category: up to MaxFactors factors, each with any
\* of the category's words
FactorLists(category) ==
    UNION {[1..n -> SUBSET mitigation_words[category]] : n \in 0..MaxFactors}

\* the categories of an assessment: one category with every factor list, the
\* others with one factor that has all their words
CategoryInputs(category, free) ==
    IF category = free
    THEN [score : MitigationScores, factors : FactorLists(category)]
    ELSE [score : MitigationScores, factors : {<<mitigation_words[category]>>}]

AssessedRisks ==
    UNION {[eligibility : CategoryInputs("eligibility", free),
            technical   : CategoryInputs("technical", free),
            pricing     : CategoryInputs("pricing", free),
            resource    : CategoryInputs("resource", free),
            compliance  : CategoryInputs("compliance", free),
            timeline    : CategoryInputs("timeline", free)]
           : free \in {MitigationCategories[i] : i \in 1..Len(MitigationCategories)}}

InitMitigations ==
    /\ RestIdle
    /\ call \in [fn : {"mitigations"}, done : {FALSE}, risks : AssessedRisks]

call_generate_mitigations ==
    /\ call.fn = "mitigations" /\ ~call.done
    /\ call' = [call EXCEPT !.done = TRUE]
               @@ [mitigations |-> _generate_mitigations(call.risks)]
    /\ FnFrame

NextMitigations == call_generate_mitigations

SpecMitigations == InitMitigations /\ [][NextMitigations]_vars

\* the mitigations in the order in which the scan of the categories appends them
Produced == appended_mitigations(call.risks, Len(MitigationCategories))

\* the place at which a mitigation was first appended to the list p
FirstProduced(p, m) ==
    CHOOSE i \in 1..Len(p) : p[i] = m /\ \A k \in 1..(i - 1) : p[k] # m

\* the block of the scan that holds a mitigation text
BlockOf(m) ==
    CHOOSE n \in 1..Len(MitigationCategories) :
        LET texts == factor_mitigations(MitigationCategories[n],
                                        mitigation_words[MitigationCategories[n]])
        IN  \E i \in 1..Len(texts) : texts[i] = m

\* C30: the mitigation list of an assessment has no entry twice and at most
\* ten entries; its entries are mitigations the scan produced, in the order
\* in which each was first produced (eligibility, technical, pricing,
\* resource, compliance, timeline), and none produced earlier than a listed
\* one is left out; fewer than ten are listed only when no more were produced
C30_Mitigations ==
    (call.fn = "mitigations" /\ call.done) =>
        LET out == call.mitigations
            p == Produced
            produced == {p[i] : i \in 1..Len(p)}
            listed == {out[i] : i \in 1..Len(out)}
            first == [m \in produced |-> FirstProduced(p, m)]
        IN  /\ \A i, j \in 1..Len(out) : out[i] = out[j] => i = j
            /\ Len(out) <= 10
            /\ listed \subseteq produced
            /\ \A i \in 1..(Len(out) - 1) :
                  /\ first[out[i]] < first[out[i + 1]]
                  /\ BlockOf(out[i]) <= BlockOf(out[i + 1])
            /\ \A m \in produced \ listed :
                  \A i \in 1..Len(out) : first[out[i]] < first[m]
            /\ Len(out) < 10 => listed = produced

\* two factors of one category produced the same mitigation, the second
\* factor's other mitigation is listed after it, and more than ten distinct
\* mitigations were produced, of which ten are listed
C30_Witness ==
    /\ call.fn = "mitigations" /\ call.done
    /\ Len(call.mitigations) = 10
    /\ Cardinality({Produced[i] : i \in 1..Len(Produced)}) > 10
    /\ \E i, j \in 1..Len(Produced) : i < j /\ Produced[i] = Produced[j]
    /\ call.risks.eligibility.factors = <<{"uei"}, {"set-aside", "uei"}>>
    /\ call.mitigations[1] = "Complete SAM.gov registration immediately"
    /\ call.mitigations[2] = "Consider teaming with an eligible prime contractor"

====
